---- MODULE Spec2Model ----
(***************************************************************************)
(* Model of the transport multiplexing and stream framing engine of        *)
(* utils/gui/moteus_gui/tview.py: DeviceStream (per-device buffered byte   *)
(* stream), the read operations a session task runs on it, and the         *)
(* scheduler task TviewMainWindow._run_transport.                          *)
(*                                                                         *)
(* Both kinds of task run on one asyncio event loop.  A step of the model  *)
(* is the code a task runs between two suspension points.  The lock of     *)
(* DeviceStream._read_condition is never held across a suspension point    *)
(* (Condition.wait releases it before suspending), so Lock.acquire always  *)
(* takes its fast path and `async with self._read_condition` does not      *)
(* suspend: process_message runs from its entry to its return in one step, *)
(* and a read operation runs from its buffer check to its wait in one step.*)
(* Bytes are naturals 0..255; byte strings are sequences of bytes.         *)
(***************************************************************************)
EXTENDS Integers, Sequences, FiniteSets, TLC

\* ------------------------------------------------------------ bounds

\* Bytes of validated payload data a device's stream accepts between two
\* discards of its inbound buffer, under Spec and SpecBackoff.
MaxData == 1

\* The same under SpecStream.
MaxLineData == 4

\* The same under SpecTasks.
MaxTaskData == 2

\* The same under SpecBlock.
MaxBlockData == 9

\* The lines of the device's answer to one command, its terminator left
\* out.
MaxAnswer == 2

\* The bytes waiting in the inbound buffer from which on the device of a
\* session-level specification sends no further frame.
MaxBuffered == 1

\* The bytes that may wait in a Running session's buffer when the device
\* sends its next frame.
MaxRunBuffered == 7

\* The bytes in the outbound queue from which on no task of SpecWrite
\* calls write.
MaxQueued == 4

\* The calls of Record.update in one behaviour.
MaxUpdates == 3

\* The calls of RecordSignal.connect in one behaviour.
MaxConnects == 2

\* Poll timeouts the transport inflicts in one behaviour of SpecGate.
MaxGateTimeouts == 5

\* Poll timeouts a transport with a budget inflicts in one behaviour.
MaxTimeouts == 2

\* The counters DeviceStream.poll_count and DeviceStream.emit_count are
\* unbounded in the code, which only compares them with 5 and 1
\* (Device.start); the model stops counting at CountSat.
CountSat == 5

\* ------------------------------------------------------------ constants

MAX_SEND == 61

\* The cap of error_count in _run_transport_iteration.
ERROR_CAP == 1000

MAX_HISTORY_SIZE == 100

\* ------------------------------------------------------------ helpers

Min2(a, b) == IF a < b THEN a ELSE b

\* Python's s[a:b] and s[a:] for 0 <= a, 0 <= b.
PySlice(s, a, b) == SubSeq(s, a + 1, Min2(b, Len(s)))

PyFrom(s, a) == SubSeq(s, a + 1, Len(s))

Range(s) == {s[i] : i \in DOMAIN s}

VARIABLES
    devices,            \* TviewMainWindow.devices: the device numbers, in list order
    error_count,        \* Device.error_count, per device number
    poll_count,         \* Device.poll_count (cycles of backoff left)
    write_data,         \* DeviceStream._write_data
    read_data,          \* DeviceStream._read_data
    emit_count,         \* DeviceStream.emit_count (saturating at CountSat)
    stream_poll_count,  \* DeviceStream.poll_count (saturating at CountSat)
    reader,             \* the session task's position in a read operation
    session,            \* the session task: its position in Device.start and its locals
    result,             \* what the session's last completed read operation returned
    record,             \* a Record of the session: its history and its signals
    sched,              \* the scheduler task's position: [pc, i]
    dispatch,           \* the task wait_for runs _dispatch_until in: [done, ret]
    any_data_read,      \* local any_data_read of _run_transport_iteration
    run_any_data_read,  \* local any_data_read of _run_transport
    \* history variables
    sent,               \* frames written to the transport in the current cycle
    flushed,            \* devices whose emit_any_writes completed in the current cycle
    cycle_data,         \* a process_message call of the current cycle appended bytes
    updates,            \* the samples given to Record.update so far, and what the
                        \* last call invoked and returned
    k,                  \* consecutive poll timeouts of a device since its last answered
                        \* poll, counted up to ERROR_CAP + 1
    budget,             \* poll timeouts the transport may still inflict; below 0: any number
    skips,              \* cycles that skipped a device since its last poll
    accepted,           \* payload data appended to read_data since its last discard
    lines,              \* lines returned by readline since the last discard
    stale,              \* bytes were appended since the reader last checked the buffer
    last                \* what the last step did

vars == <<devices, error_count, poll_count, write_data, read_data, emit_count,
          stream_poll_count, reader, session, result, sched, dispatch,
          any_data_read, run_any_data_read, sent, flushed, cycle_data, k,
          budget, skips, accepted, lines, stale, last, record, updates>>

streamVars == <<write_data, read_data, emit_count, stream_poll_count>>
readerVars == <<reader, result, lines, stale>>
backoffVars == <<error_count, poll_count, k, budget, skips>>

DevIds == Range(devices)

\* ------------------------------------------------------------ DeviceStream

Sat_NotCounted(n) == n

\* emit_count += 1 and poll_count += 1 of DeviceStream; the values from
\* CountSat on are one value.
Sat(n) == IF n < CountSat THEN n + 1 ELSE n

ProcessMessage_NoNotify(buf, data) ==
    LET drop == [read_data |-> buf, notified |-> FALSE, ret |-> FALSE] IN
    IF Len(data) < 3 THEN drop
    ELSE IF data[1] # 65 THEN drop
    ELSE IF data[2] # 1 THEN drop
    ELSE IF data[3] > MAX_SEND THEN drop
    ELSE IF data[3] > Len(data) - 3 THEN drop
    ELSE [read_data |-> buf \o PySlice(data, 3, 3 + data[3]),
          notified |-> FALSE,
          ret |-> data[3] > 0]

ProcessMessage_NoLenCheck(buf, data) ==
    LET drop == [read_data |-> buf, notified |-> FALSE, ret |-> FALSE] IN
    IF Len(data) < 3 THEN drop
    ELSE IF data[1] # 65 THEN drop
    ELSE IF data[2] # 1 THEN drop
    ELSE IF data[3] > MAX_SEND THEN drop
    ELSE [read_data |-> buf \o PySlice(data, 3, 3 + data[3]),
          notified |-> TRUE,
          ret |-> data[3] > 0]

ProcessMessage_AppendAll(buf, data) ==
    LET drop == [read_data |-> buf, notified |-> FALSE, ret |-> FALSE] IN
    IF Len(data) < 3 THEN drop
    ELSE IF data[1] # 65 THEN drop
    ELSE IF data[2] # 1 THEN drop
    ELSE IF data[3] > MAX_SEND THEN drop
    ELSE IF data[3] > Len(data) - 3 THEN drop
    ELSE [read_data |-> buf \o PyFrom(data, 3),
          notified |-> TRUE,
          ret |-> data[3] > 0]

ProcessMessage_Prepend(buf, data) ==
    LET drop == [read_data |-> buf, notified |-> FALSE, ret |-> FALSE] IN
    IF Len(data) < 3 THEN drop
    ELSE IF data[1] # 65 THEN drop
    ELSE IF data[2] # 1 THEN drop
    ELSE IF data[3] > MAX_SEND THEN drop
    ELSE IF data[3] > Len(data) - 3 THEN drop
    ELSE [read_data |-> PySlice(data, 3, 3 + data[3]) \o buf,
          notified |-> TRUE,
          ret |-> data[3] > 0]

\* DeviceStream.process_message on the buffer `buf` and the frame data
\* `data`: the new buffer, whether notify_all ran, and the return value.
ProcessMessage(buf, data) ==
    LET drop == [read_data |-> buf, notified |-> FALSE, ret |-> FALSE] IN
    IF Len(data) < 3 THEN drop
    ELSE IF data[1] # 65 THEN drop
    ELSE IF data[2] # 1 THEN drop
    ELSE IF data[3] > MAX_SEND THEN drop
    ELSE LET datalen == data[3] IN
         IF datalen > Len(data) - 3 THEN drop
         ELSE [read_data |-> buf \o PySlice(data, 3, 3 + datalen),
               notified |-> TRUE,
               ret |-> datalen > 0]

\* Condition.notify_all: every waiter becomes runnable.
NotifyAll(r) == IF r.st = "wait" THEN [r EXCEPT !.st = "woken"] ELSE r

MaybeEmitOne_DropsByte(wd) ==
    IF Len(wd) = 0
    THEN [to_write |-> <<>>, write_data |-> wd, emitted |-> FALSE]
    ELSE [to_write |-> PySlice(wd, 0, MAX_SEND),
          write_data |-> PyFrom(wd, MAX_SEND + 1),
          emitted |-> TRUE]

\* DeviceStream.maybe_emit_one: the bytes put in a write frame (empty: no
\* frame) and the queue left.
MaybeEmitOne(wd) ==
    IF Len(wd) = 0
    THEN [to_write |-> <<>>, write_data |-> wd, emitted |-> FALSE]
    ELSE [to_write |-> PySlice(wd, 0, MAX_SEND),
          write_data |-> PyFrom(wd, MAX_SEND),
          emitted |-> TRUE]

\* ------------------------------------------------------------ reading

\* bytes.find(c): the index of the first c in s, or -1.
Find(s, c) ==
    LET I == {i \in DOMAIN s : s[i] = c}
    IN IF I = {} THEN -1 ELSE (CHOOSE i \in I : \A j \in I : i <= j) - 1

\* first_newline of _read_maybe_empty_line, -1 standing for None.
FirstNewline(s) ==
    LET F == {Find(s, c) : c \in {c \in {13, 10} : c \in Range(s)}}
    IN IF F = {} THEN -1 ELSE CHOOSE n \in F : \A m \in F : n <= m

\* DeviceStream._read_maybe_empty_line: whether a line was split off, the
\* line with its terminator, and the buffer left.
ReadMaybeEmptyLine(buf) ==
    LET n == FirstNewline(buf)
    IN IF n = -1
       THEN [found |-> FALSE, to_return |-> <<>>, read_data |-> buf]
       ELSE [found |-> TRUE,
             to_return |-> PySlice(buf, 0, n + 1),
             read_data |-> PyFrom(buf, n + 1)]

\* bytes.rstrip(): trailing ASCII whitespace (space, \t, \n, \r, \x0b,
\* \x0c) removed.
RECURSIVE RStrip(_)
RStrip(s) ==
    IF s = <<>> THEN s
    ELSE IF s[Len(s)] \in {32, 9, 10, 13, 11, 12}
         THEN RStrip(SubSeq(s, 1, Len(s) - 1))
         ELSE s

ReadlineCheck_NoStrip(buf) ==
    LET m == ReadMaybeEmptyLine(buf)
    IN [done |-> m.found /\ Len(m.to_return) > 0,
        value |-> m.to_return,
        read_data |-> m.read_data]

\* One pass of readline's loop up to its return or its wait.
ReadlineCheck(buf) ==
    LET m == ReadMaybeEmptyLine(buf)
        line == RStrip(m.to_return)
    IN [done |-> m.found /\ Len(line) > 0,
        value |-> line,
        read_data |-> m.read_data]

\* struct.unpack('<I', b)[0] of four bytes.
UnpackU32(b) == b[1] + 256 * b[2] + 65536 * b[3] + 16777216 * b[4]

ReadSizedBlockCheck_ShortHeader(buf) ==
    LET wait == [done |-> FALSE, ok |-> FALSE, value |-> <<>>, read_data |-> buf]
    IN IF Len(buf) >= 5
       THEN LET size == UnpackU32(PySlice(buf, 1, 5))
            IN IF size > 16777216
               THEN [done |-> TRUE, ok |-> FALSE, value |-> <<>>, read_data |-> buf]
               ELSE IF Len(buf) >= 5 + size
                    THEN [done |-> TRUE, ok |-> TRUE,
                          value |-> PySlice(buf, 4, 4 + size),
                          read_data |-> PyFrom(buf, 4 + size)]
                    ELSE wait
       ELSE wait

ReadSizedBlockCheck_RejectAtLimit(buf) ==
    LET wait == [done |-> FALSE, ok |-> FALSE, value |-> <<>>, read_data |-> buf]
    IN IF Len(buf) >= 5
       THEN LET size == UnpackU32(PySlice(buf, 1, 5))
            IN IF size >= 16777216
               THEN [done |-> TRUE, ok |-> FALSE, value |-> <<>>, read_data |-> buf]
               ELSE IF Len(buf) >= 5 + size
                    THEN [done |-> TRUE, ok |-> TRUE,
                          value |-> PySlice(buf, 5, 5 + size),
                          read_data |-> PyFrom(buf, 5 + size)]
                    ELSE wait
       ELSE wait

\* One pass of read_sized_block's loop up to its return or its wait.
ReadSizedBlockCheck(buf) ==
    LET wait == [done |-> FALSE, ok |-> FALSE, value |-> <<>>, read_data |-> buf]
    IN IF Len(buf) >= 5
       THEN LET size == UnpackU32(PySlice(buf, 1, 5))
            IN IF size > 16777216
               THEN [done |-> TRUE, ok |-> FALSE, value |-> <<>>, read_data |-> buf]
               ELSE IF Len(buf) >= 5 + size
                    THEN [done |-> TRUE, ok |-> TRUE,
                          value |-> PySlice(buf, 5, 5 + size),
                          read_data |-> PyFrom(buf, 5 + size)]
                    ELSE wait
       ELSE wait

Idle == [op |-> "none", st |-> "idle", oldlen |-> 0]

Waiting(op, oldlen) == [op |-> op, st |-> "wait", oldlen |-> oldlen]

\* The record of a step: the operation, the device it acted for, and for a
\* message read in a dispatch window its source, its data, what
\* process_message returned and the polled device's error_count before;
\* for the scheduler's step after an answered poll what _dispatch_until
\* returned, the error_count before, and the answer when the step follows
\* it at once.
Step(op, dev) ==
    [op |-> op, dev |-> dev, src |-> 0, data |-> <<>>, ret |-> FALSE, ec |-> 0]

schedVars == <<sched, dispatch, any_data_read, run_any_data_read, sent,
               flushed, cycle_data>>

\* What no read operation of a stream changes.
readFrame == <<devices, record, updates, emit_count, stream_poll_count, backoffVars, schedVars>>

\* DeviceStream.readline from its buffer check to its return or its wait:
\* the stream's side of it.
ReadlineCore(d) ==
    LET c == ReadlineCheck(read_data[d])
    IN /\ read_data' = [read_data EXCEPT ![d] = c.read_data]
       /\ reader' = [reader EXCEPT
                       ![d] = IF c.done THEN Idle ELSE Waiting("readline", 0)]
       /\ result' = IF c.done
                    THEN [result EXCEPT ![d] = [kind |-> "line", value |-> c.value]]
                    ELSE result
       /\ stale' = [stale EXCEPT ![d] = FALSE]
       /\ last' = Step("readline", d)
       /\ UNCHANGED readFrame

\* readline called by a session whose own position is left out.
ReadlineStep(d) ==
    LET c == ReadlineCheck(read_data[d])
    IN /\ ReadlineCore(d)
       /\ lines' = IF c.done THEN [lines EXCEPT ![d] = Append(@, c.value)]
                   ELSE lines
       /\ UNCHANGED <<write_data, session, accepted>>

\* The session calls DeviceStream.readline.
Readline(d) == reader[d].st = "idle" /\ ReadlineStep(d)

\* readline goes on after a notification.
ResumeReadline(d) ==
    /\ reader[d].st = "woken"
    /\ reader[d].op = "readline"
    /\ ReadlineStep(d)

\* What read_sized_block returned: the block, or False.
BlockResult(c) == [kind |-> IF c.ok THEN "block" ELSE "False", value |-> c.value]

\* DeviceStream.read_sized_block from its buffer check to its return or
\* its wait: the stream's side of it.
ReadSizedBlockCore(d) ==
    LET c == ReadSizedBlockCheck(read_data[d])
    IN /\ read_data' = [read_data EXCEPT ![d] = c.read_data]
       /\ reader' = [reader EXCEPT
                       ![d] = IF c.done THEN Idle
                              ELSE Waiting("read_sized_block", 0)]
       /\ result' = IF c.done THEN [result EXCEPT ![d] = BlockResult(c)]
                    ELSE result
       /\ stale' = [stale EXCEPT ![d] = FALSE]
       /\ last' = Step("read_sized_block", d)
       /\ UNCHANGED <<devices, emit_count, stream_poll_count, backoffVars,
                      schedVars>>

\* read_sized_block called by a session whose own position is left out.
ReadSizedBlockStep(d) ==
    /\ ReadSizedBlockCore(d)
    /\ UNCHANGED <<write_data, session, accepted, lines, record, updates>>

\* The session calls DeviceStream.read_sized_block.
ReadSizedBlock(d) == reader[d].st = "idle" /\ ReadSizedBlockStep(d)

\* read_sized_block goes on after a notification.
ResumeReadSizedBlock(d) ==
    /\ reader[d].st = "woken"
    /\ reader[d].op = "read_sized_block"
    /\ ReadSizedBlockStep(d)

\* DeviceStream.resynchronize is called: oldlen is taken and the task
\* waits.
ResynchronizeCore(d) ==
    /\ reader[d].st = "idle"
    /\ reader' = [reader EXCEPT
                    ![d] = Waiting("resynchronize", Len(read_data[d]))]
    /\ stale' = [stale EXCEPT ![d] = FALSE]
    /\ last' = Step("resynchronize", d)
    /\ UNCHANGED <<devices, record, updates, streamVars, backoffVars, schedVars, accepted,
                   lines, result>>

\* resynchronize called by a session whose own position is left out.
Resynchronize(d) == ResynchronizeCore(d) /\ UNCHANGED session

ResumeResynchronize_AnyWakeup(d) ==
    /\ reader[d].st = "woken"
    /\ reader[d].op = "resynchronize"
    /\ read_data' = [read_data EXCEPT ![d] = <<>>]
    /\ reader' = [reader EXCEPT ![d] = Idle]
    /\ result' = [result EXCEPT ![d] = [kind |-> "None", value |-> <<>>]]
    /\ accepted' = [accepted EXCEPT ![d] = <<>>]
    /\ lines' = [lines EXCEPT ![d] = <<>>]
    /\ stale' = [stale EXCEPT ![d] = FALSE]
    /\ last' = Step("resynchronize", d)
    /\ UNCHANGED <<devices, record, updates, write_data, emit_count, stream_poll_count,
                   backoffVars, schedVars>>

\* resynchronize goes on after a notification: the buffer is discarded if
\* it did not grow, and else the task waits again.
ResumeResynchronizeCore(d) ==
    /\ reader[d].st = "woken"
    /\ reader[d].op = "resynchronize"
    /\ LET newlen == Len(read_data[d])
       IN IF newlen = reader[d].oldlen
          THEN /\ read_data' = [read_data EXCEPT ![d] = <<>>]
               /\ reader' = [reader EXCEPT ![d] = Idle]
               /\ result' = [result EXCEPT ![d] = [kind |-> "None", value |-> <<>>]]
               /\ accepted' = [accepted EXCEPT ![d] = <<>>]
               /\ lines' = [lines EXCEPT ![d] = <<>>]
          ELSE /\ reader' = [reader EXCEPT ![d] = Waiting("resynchronize", newlen)]
               /\ UNCHANGED <<read_data, result, accepted, lines>>
    /\ stale' = [stale EXCEPT ![d] = FALSE]
    /\ last' = Step("resynchronize", d)
    /\ UNCHANGED <<devices, record, updates, write_data, emit_count, stream_poll_count,
                   backoffVars, schedVars>>

\* The same in a session whose own position is left out.
ResumeResynchronize(d) == ResumeResynchronizeCore(d) /\ UNCHANGED session

\* Device.process_message of device t on the frame data `data`, as
\* _dispatch_until calls it: the buffer, the waiting reader and the
\* history; at most maxData bytes are accepted between two discards.
Deliver(t, data, maxData) ==
    LET pm == ProcessMessage(read_data[t], data)
        new == PyFrom(pm.read_data, Len(read_data[t]))
    IN /\ Len(accepted[t]) + Len(new) <= maxData
       /\ read_data' = [read_data EXCEPT ![t] = pm.read_data]
       /\ accepted' = [accepted EXCEPT ![t] = @ \o new]
       /\ reader' = IF pm.notified THEN [reader EXCEPT ![t] = NotifyAll(@)]
                    ELSE reader
       /\ stale' = IF Len(new) > 0 THEN [stale EXCEPT ![t] = TRUE] ELSE stale

\* ------------------------------------------------------------ scheduler

\* (message.arbitration_id >> 8) & 0xff
SourceId(message) == (message.arbitration_id \div 256) % 256

AfterFlush_Interleaved(i) == [pc |-> "poll", i |-> i]

\* The scheduler's position after emit_any_writes of the i-th device: the
\* flush loop goes on, and the poll loop starts after its last device.
AfterFlush(i) ==
    IF i < Len(devices) THEN [pc |-> "flush", i |-> i + 1]
    ELSE [pc |-> "poll", i |-> 1]

AfterPoll_FirstOnly(i) == [pc |-> "top", i |-> 0]

\* The scheduler's position after the poll loop's body for the i-th device;
\* past the last device _run_transport_iteration returns.
AfterPoll(i) ==
    IF i < Len(devices) THEN [pc |-> "poll", i |-> i + 1]
    ELSE [pc |-> "top", i |-> 0]

TimeoutErrorCount_Kept(ec) == ec

\* error_count after a poll timeout (line 1260).
TimeoutErrorCount(ec) == Min2(ERROR_CAP, ec + 1)

AnsweredErrorCount_Kept(ec) == ec

\* error_count after an answered poll (line 1252).
AnsweredErrorCount(ec) == 0

\* _run_transport: the idle sleep after a cycle without data, then the
\* entry of _run_transport_iteration.
CycleStart ==
    /\ sched.pc = "top"
    /\ sched' = [pc |-> "flush", i |-> 1]
    /\ any_data_read' = FALSE
    /\ sent' = <<>>
    /\ flushed' = {}
    /\ cycle_data' = FALSE
    /\ last' = Step(IF run_any_data_read THEN "start" ELSE "sleep", 0)
    /\ UNCHANGED <<devices, record, updates, session, streamVars, readerVars, backoffVars, accepted,
                   run_any_data_read, dispatch>>

EmitAnyWrites_NotInBackoff ==
    /\ sched.pc = "flush"
    /\ LET d == devices[sched.i]
           e == IF poll_count[d] # 0
                THEN [to_write |-> <<>>, write_data |-> write_data[d],
                      emitted |-> FALSE]
                ELSE MaybeEmitOne(write_data[d])
       IN /\ write_data' = [write_data EXCEPT ![d] = e.write_data]
          /\ emit_count' = [emit_count EXCEPT
                              ![d] = IF e.emitted THEN Sat(@) ELSE @]
          /\ sent' = IF e.emitted
                     THEN Append(sent, [kind |-> "write", dev |-> d,
                                        bytes |-> e.to_write])
                     ELSE sent
          /\ flushed' = flushed \cup {d}
          /\ last' = Step("flush", d)
    /\ sched' = AfterFlush(sched.i)
    /\ UNCHANGED <<devices, record, updates, session, read_data, stream_poll_count, readerVars,
                   backoffVars, accepted, any_data_read, run_any_data_read,
                   cycle_data, dispatch>>

\* One pass of the first loop: device.emit_any_writes().
EmitAnyWrites ==
    /\ sched.pc = "flush"
    /\ LET d == devices[sched.i]
           e == MaybeEmitOne(write_data[d])
       IN /\ write_data' = [write_data EXCEPT ![d] = e.write_data]
          /\ emit_count' = [emit_count EXCEPT
                              ![d] = IF e.emitted THEN Sat(@) ELSE @]
          /\ sent' = IF e.emitted
                     THEN Append(sent, [kind |-> "write", dev |-> d,
                                        bytes |-> e.to_write])
                     ELSE sent
          /\ flushed' = flushed \cup {d}
          /\ last' = Step("flush", d)
    /\ sched' = AfterFlush(sched.i)
    /\ UNCHANGED <<devices, record, updates, session, read_data, stream_poll_count, readerVars,
                   backoffVars, accepted, any_data_read, run_any_data_read,
                   cycle_data, dispatch>>

BackoffLeft_Cleared(pc) == 0

BackoffLeft_ByTwo(pc) == pc - 2

\* poll_count after a cycle that skipped the device (line 1241).
BackoffLeft(pc) == pc - 1

\* What leaving the poll loop's body for the i-th device does to the
\* scheduler's locals.
LeaveBody(i, any) ==
    /\ sched' = AfterPoll(i)
    /\ any_data_read' = any
    /\ run_any_data_read' = IF AfterPoll(i).pc = "top" THEN any
                            ELSE run_any_data_read

\* One pass of the second loop for a device in backoff.
SkipBackoff ==
    /\ sched.pc = "poll"
    /\ LET d == devices[sched.i]
       IN /\ poll_count[d] # 0
          /\ poll_count' = [poll_count EXCEPT ![d] = BackoffLeft(@)]
          /\ skips' = [skips EXCEPT ![d] = @ + 1]
          /\ last' = Step("skip", d)
    /\ LeaveBody(sched.i, any_data_read)
    /\ UNCHANGED <<devices, record, updates, session, streamVars, readerVars, error_count, k, budget,
                   accepted, sent, flushed, cycle_data, dispatch>>

\* The task of _dispatch_until before it returned.
Dispatching == [done |-> FALSE, ret |-> FALSE]

\* device.poll(): the poll frame is sent and the dispatch window opens:
\* wait_for starts _dispatch_until in a task of its own and the scheduler
\* waits for it (line 1247).
Poll ==
    /\ sched.pc = "poll"
    /\ LET d == devices[sched.i]
       IN /\ poll_count[d] = 0
          /\ stream_poll_count' = [stream_poll_count EXCEPT ![d] = Sat(@)]
          /\ sent' = Append(sent, [kind |-> "poll", dev |-> d, bytes |-> <<>>])
          /\ skips' = [skips EXCEPT ![d] = 0]
          /\ last' = Step("poll", d)
    /\ sched' = [sched EXCEPT !.pc = "window"]
    /\ dispatch' = Dispatching
    /\ UNCHANGED <<devices, record, updates, session, write_data, read_data, emit_count, readerVars,
                   error_count, poll_count, k, budget, accepted, flushed,
                   cycle_data, any_data_read, run_any_data_read>>

Target_PolledOnly(message) ==
    IF SourceId(message) = devices[sched.i] THEN SourceId(message) ELSE 0

\* The device _dispatch_until hands the message to: the one whose number is
\* the message's source, or 0 when there is none.
Target(message) ==
    IF \E j \in DOMAIN devices : devices[j] = SourceId(message)
    THEN SourceId(message) ELSE 0

Predicate_AcceptedOnly(message, d) ==
    SourceId(message) = d /\ ProcessMessage(<<>>, message.data).notified

\* The predicate _run_transport_iteration gives _dispatch_until.
Predicate(message, d) == SourceId(message) = d

Receive_ResetsSource(message, maxData) ==
    /\ sched.pc = "window"
    /\ ~dispatch.done
    /\ LET d == devices[sched.i]
           t == Target(message)
           pm == IF t = 0
                 THEN [read_data |-> <<>>, notified |-> FALSE, ret |-> FALSE]
                 ELSE ProcessMessage(read_data[t], message.data)
       IN /\ IF t = 0
             THEN UNCHANGED <<read_data, accepted, reader, stale>>
             ELSE Deliver(t, message.data, maxData)
          /\ cycle_data' = (cycle_data \/ (t # 0 /\ Len(pm.read_data) > Len(read_data[t])))
          /\ last' = [op |-> "receive", dev |-> d, src |-> SourceId(message),
                      data |-> message.data, ret |-> pm.ret,
                      ec |-> error_count[d]]
          /\ dispatch' = IF Predicate(message, d)
                         THEN [done |-> TRUE, ret |-> pm.ret]
                         ELSE dispatch
          /\ IF t # 0 /\ ~Predicate(message, d)
             THEN /\ error_count' = [error_count EXCEPT ![t] = AnsweredErrorCount(@)]
                  /\ poll_count' = [poll_count EXCEPT ![t] = 0]
                  /\ k' = [k EXCEPT ![t] = 0]
             ELSE UNCHANGED <<error_count, poll_count, k>>
    /\ UNCHANGED <<devices, record, updates, session, write_data, emit_count, stream_poll_count, result,
                   lines, budget, skips, sent, flushed, sched, any_data_read,
                   run_any_data_read>>

\* One pass of _dispatch_until's loop inside the window of the polled
\* device: a message is read and routed to the device it names; on a
\* message from the polled device _dispatch_until returns what
\* process_message returned. The scheduler task, which waits for that
\* return in wait_for, goes on in a later step.
Receive(message, maxData) ==
    /\ sched.pc = "window"
    /\ ~dispatch.done
    /\ LET d == devices[sched.i]
           t == Target(message)
           pm == IF t = 0
                 THEN [read_data |-> <<>>, notified |-> FALSE, ret |-> FALSE]
                 ELSE ProcessMessage(read_data[t], message.data)
       IN /\ IF t = 0
             THEN UNCHANGED <<read_data, accepted, reader, stale>>
             ELSE Deliver(t, message.data, maxData)
          /\ cycle_data' = (cycle_data \/ (t # 0 /\ Len(pm.read_data) > Len(read_data[t])))
          /\ last' = [op |-> "receive", dev |-> d, src |-> SourceId(message),
                      data |-> message.data, ret |-> pm.ret,
                      ec |-> error_count[d]]
          /\ dispatch' = IF Predicate(message, d)
                         THEN [done |-> TRUE, ret |-> pm.ret]
                         ELSE dispatch
    /\ UNCHANGED <<devices, record, updates, session, write_data, emit_count, stream_poll_count, result,
                   lines, backoffVars, sent, flushed, sched, any_data_read,
                   run_any_data_read>>

\* wait_for hands the scheduler the return value of _dispatch_until: the
\* poll was answered (lines 1252-1256).
Answered ==
    /\ sched.pc = "window"
    /\ dispatch.done
    /\ LET d == devices[sched.i]
       IN /\ error_count' = [error_count EXCEPT ![d] = AnsweredErrorCount(@)]
          /\ poll_count' = [poll_count EXCEPT ![d] = 0]
          /\ k' = [k EXCEPT ![d] = 0]
          /\ last' = [Step("answered", d) EXCEPT
                        !.src = IF last.op = "receive" THEN last.src ELSE 0,
                        !.data = IF last.op = "receive" THEN last.data ELSE <<>>,
                        !.ret = dispatch.ret,
                        !.ec = error_count[d]]
    /\ LeaveBody(sched.i, any_data_read \/ dispatch.ret)
    /\ dispatch' = Dispatching
    /\ UNCHANGED <<devices, record, updates, session, streamVars, readerVars, budget, skips,
                   accepted, sent, flushed, cycle_data>>

Timeout_Shared ==
    /\ sched.pc = "window"
    /\ ~dispatch.done
    /\ budget # 0
    /\ LET d == devices[sched.i]
       IN /\ error_count' = [e \in DevIds |-> TimeoutErrorCount(error_count[e])]
          /\ poll_count' = error_count'
          /\ k' = [k EXCEPT ![d] = Min2(ERROR_CAP + 1, @ + 1)]
          /\ last' = Step("timeout", d)
    /\ budget' = IF budget > 0 THEN budget - 1 ELSE budget
    /\ LeaveBody(sched.i, any_data_read)
    /\ UNCHANGED <<devices, record, updates, session, streamVars, readerVars, skips, accepted, sent,
                   flushed, cycle_data, dispatch>>

\* asyncio.wait_for cancels _dispatch_until at transport.read(): the poll
\* timed out (lines 1257-1261).  The transport leaves a poll unanswered
\* while its budget is not used up; a budget below 0 is never used up.
Timeout ==
    /\ sched.pc = "window"
    /\ ~dispatch.done
    /\ budget # 0
    /\ LET d == devices[sched.i]
       IN /\ error_count' = [error_count EXCEPT ![d] = TimeoutErrorCount(@)]
          /\ poll_count' = [poll_count EXCEPT ![d] = error_count'[d]]
          /\ k' = [k EXCEPT ![d] = Min2(ERROR_CAP + 1, @ + 1)]
          /\ last' = Step("timeout", d)
    /\ budget' = IF budget > 0 THEN budget - 1 ELSE budget
    /\ LeaveBody(sched.i, any_data_read)
    /\ UNCHANGED <<devices, record, updates, session, streamVars, readerVars, skips, accepted, sent,
                   flushed, cycle_data, dispatch>>

\* ------------------------------------------------------------ inputs

\* '\r\ntel stop\r\n', which Device.start queues before its first
\* suspension.
TelStop == <<13, 10, 116, 101, 108, 32, 115, 116, 111, 112, 13, 10>>

\* ------------------------------------------------------------ session

\* The texts of Device's protocol, as the bytes latin1 gives them.
CRLF == <<13, 10>>
ConfList == <<99, 111, 110, 102, 32, 108, 105, 115, 116>>    \* 'conf list'
ConfEnumerate == <<99, 111, 110, 102, 32, 101, 110, 117, 109, 101, 114, 97, 116, 101>>    \* 'conf enumerate'
TelList == <<116, 101, 108, 32, 108, 105, 115, 116>>    \* 'tel list'
ConfSchema == <<99, 111, 110, 102, 32, 115, 99, 104, 101, 109, 97, 32>>    \* 'conf schema '
ConfData == <<99, 111, 110, 102, 32, 100, 97, 116, 97, 32>>    \* 'conf data '
TelSchema == <<116, 101, 108, 32, 115, 99, 104, 101, 109, 97, 32>>    \* 'tel schema '
EmitPrefix == <<101, 109, 105, 116, 32>>    \* 'emit '
SchemaPrefix == <<115, 99, 104, 101, 109, 97, 32>>    \* 'schema '
CSchemaPrefix == <<99, 115, 99, 104, 101, 109, 97, 32>>    \* 'cschema '
CDataPrefix == <<99, 100, 97, 116, 97, 32>>    \* 'cdata '
ERR == <<69, 82, 82>>    \* 'ERR'
OK == <<79, 75>>    \* 'OK'

\* str.startswith
StartsWith(s, p) == Len(s) >= Len(p) /\ SubSeq(s, 1, Len(p)) = p

\* _has_nonascii
HasNonAscii(data) == \E i \in DOMAIN data : data[i] > 127

\* The characters below 256 that str.strip() removes.
StrWhitespace == {9, 10, 11, 12, 13, 28, 29, 30, 31, 32, 133, 160}

RECURSIVE LStrip(_)
LStrip(s) ==
    IF s = <<>> THEN s
    ELSE IF s[1] \in StrWhitespace THEN LStrip(Tail(s)) ELSE s

RECURSIVE RStripStr(_)
RStripStr(s) ==
    IF s = <<>> THEN s
    ELSE IF s[Len(s)] \in StrWhitespace
         THEN RStripStr(SubSeq(s, 1, Len(s) - 1))
         ELSE s

\* str.strip()
Strip(s) == LStrip(RStripStr(s))

\* str.split(sep) for a separator of one character.
RECURSIVE Split(_, _)
Split(s, sep) ==
    LET n == Find(s, sep)
    IN IF n = -1 THEN <<s>>
       ELSE <<PySlice(s, 0, n)>> \o Split(PyFrom(s, n + 1), sep)

\* str.split(sep, 1)
Split1(s, sep) ==
    LET n == Find(s, sep)
    IN IF n = -1 THEN <<s>> ELSE <<PySlice(s, 0, n), PyFrom(s, n + 1)>>

\* [f(x) for x in xs if x.strip() != '']
RECURSIVE NonBlank(_, _)
NonBlank(xs, stripped) ==
    IF xs = <<>> THEN <<>>
    ELSE IF Strip(Head(xs)) = <<>> THEN NonBlank(Tail(xs), stripped)
         ELSE <<IF stripped THEN Strip(Head(xs)) ELSE Head(xs)>>
              \o NonBlank(Tail(xs), stripped)

\* Whether add_config_line(line) returns: its two unpacking assignments
\* need a space in the line and a dot in the key before it.
AddConfigLineOk(line) ==
    /\ Len(Split1(line, 32)) = 2
    /\ Len(Split1(Split1(line, 32)[1], 46)) = 2

\* No call of the session ended in its last step.
NoEvent == [kind |-> "none", cmd |-> <<>>, text |-> <<>>, seen |-> <<>>]

\* A call ended in the session's last step.  kind "returned": command(cmd)
\* returned text, having read the lines seen.  "CommandError":
\* CommandError(cmd, text) was raised.  "ValueError", "TypeError",
\* "decoder": that exception was raised.  "no data", "no record",
\* "updated", "caught": do_data(cmd) returned so, or raised into run's
\* except clause.
Event(kind, cmd, text, seen) ==
    [kind |-> kind, cmd |-> cmd, text |-> text, seen |-> seen]

\* A session before Device.start has run.
NewSession ==
    [pc |-> "start",            \* where the task stands
     state |-> "AwaitingStable",
     message |-> <<>>,          \* command's argument
     result |-> <<>>,           \* command's StringIO
     rest |-> <<>>,             \* the elements or names the loop still has to visit
     name |-> <<>>,             \* the element or name being synchronised or emitted
     schema |-> [kind |-> "None", value |-> <<>>],
     line |-> <<>>,             \* run's line
     records |-> {},            \* the names in _telemetry_records
     schema_config |-> "unset", \* _schema_config
     updating_config |-> FALSE, \* _updating_config
     \* history
     seen |-> <<>>,             \* the lines command has read since it was called
     event |-> NoEvent]         \* what the session's last step ended

\* What a step of the session leaves: the session and the bytes it queued
\* with write_line.
Ret(s, w) == [s |-> s, w |-> w]

Escapes_NoFinally(s, kind, cmd, err) ==
    Ret([s EXCEPT !.pc = "raised",
                  !.event = Event(kind, cmd, err, s.seen), !.seen = <<>>], <<>>)

\* An exception leaves Device.start: update_config's finally clause runs
\* on the way, and the task ends.
Escapes(s, kind, cmd, err) ==
    Ret([s EXCEPT !.pc = "raised", !.updating_config = FALSE,
                  !.event = Event(kind, cmd, err, s.seen), !.seen = <<>>], <<>>)

\* Device.command up to its first readline.
Command(s, message) ==
    Ret([s EXCEPT !.pc = "command_first", !.message = message,
                  !.result = <<>>, !.seen = <<>>],
        message \o CRLF)

\* Device.update_config up to the first readline of schema_update_config.
UpdateConfig(s) ==
    Command([s EXCEPT !.state = "SyncingConfig", !.updating_config = TRUE],
            ConfList)

\* Device.update_telemetry up to its first readline, update_config
\* having returned.
UpdateTelemetry(s) ==
    Command([s EXCEPT !.state = "SyncingTelemetry", !.updating_config = FALSE,
                      !.records = {}, !.rest = <<>>, !.name = <<>>,
                      !.schema = [kind |-> "None", value |-> <<>>]],
            TelList)

\* Device.run up to its first readline, update_telemetry having returned.
Run(s) ==
    Ret([s EXCEPT !.state = "Running", !.pc = "run_line", !.rest = <<>>,
                  !.name = <<>>,
                  !.schema = [kind |-> "None", value |-> <<>>]], <<>>)

NextElement_SkipTelemetry(s, rest) ==
    IF rest = <<>>
    THEN Run([s EXCEPT !.schema_config = "True", !.updating_config = FALSE])
    ELSE Ret([s EXCEPT !.pc = "read_schema_line", !.name = Head(rest),
                       !.rest = Tail(rest)],
             ConfSchema \o Head(rest) \o CRLF)

\* The loop of schema_update_config goes to its next element, or the
\* function returns and update_config with it.
NextElement(s, rest) ==
    IF rest = <<>>
    THEN UpdateTelemetry([s EXCEPT !.schema_config = "True"])
    ELSE Ret([s EXCEPT !.pc = "read_schema_line", !.name = Head(rest),
                       !.rest = Tail(rest)],
             ConfSchema \o Head(rest) \o CRLF)

\* The loop of update_telemetry goes to its next name, or the function
\* returns and run starts.
NextName(s, rest) ==
    IF rest = <<>>
    THEN Run(s)
    ELSE Ret([s EXCEPT !.pc = "read_schema_line", !.name = Head(rest),
                       !.rest = Tail(rest)],
             TelSchema \o Head(rest) \o CRLF)

\* CommandError(cmd, err) is raised.  Inside schema_update_config, which
\* runs from command('conf list') to the next call of command, the except
\* clause of update_config takes it and the legacy enumeration starts;
\* anywhere else it leaves start.
RaiseCommandError(s, cmd, err) ==
    LET e == Event("CommandError", cmd, err, s.seen)
    IN IF s.state = "SyncingConfig" /\ s.message = ConfList
       THEN Command([s EXCEPT !.schema_config = "False", !.event = e,
                              !.rest = <<>>, !.name = <<>>,
                              !.schema = [kind |-> "None", value |-> <<>>]],
                    ConfEnumerate)
       ELSE Escapes(s, "CommandError", cmd, err)

\* command returns its result to the function that called it.
CommandReturns(s) ==
    LET parts == Split(s.result, 10)
        r == [s EXCEPT !.event = Event("returned", s.message, s.result, s.seen),
                       !.result = <<>>, !.seen = <<>>]
    IN IF s.message = ConfList THEN NextElement(r, NonBlank(parts, TRUE))
       ELSE IF s.message = ConfEnumerate
       THEN IF \A i \in DOMAIN parts :
                   Strip(parts[i]) # <<>> => AddConfigLineOk(parts[i])
            THEN UpdateTelemetry(r)
            ELSE Escapes(r, "ValueError", <<>>, <<>>)
       ELSE NextName(r, NonBlank(parts, FALSE))

\* command has read a line.
Seen(s, line) == [s EXCEPT !.seen = Append(@, line)]

\* result.write(line + '\n'), and on to the readline of line 841.
Accumulate(s, line) ==
    Ret([s EXCEPT !.result = @ \o line \o <<10>>, !.pc = "command_next"], <<>>)

CommandLine_ErrAccumulated(s, line) ==
    IF StartsWith(line, OK) THEN CommandReturns(Seen(s, line))
    ELSE Accumulate(Seen(s, line), line)

\* The body of command's second loop on a line (lines 835-840).
CommandLine(s, line) ==
    IF StartsWith(line, ERR)
    THEN RaiseCommandError(Seen(s, line), s.message, line)
    ELSE IF StartsWith(line, OK) THEN CommandReturns(Seen(s, line))
    ELSE Accumulate(Seen(s, line), line)

\* command's first loop on a line (lines 828-831).
CommandFirst(s, line) ==
    IF StartsWith(line, EmitPrefix) \/ StartsWith(line, SchemaPrefix)
    THEN Ret(Seen(s, line), <<>>)
    ELSE CommandLine(s, line)

\* read_schema's loop on a line (the second definition, lines 753-760,
\* which replaces the first).
ReadSchemaLine(s, line) ==
    IF StartsWith(line, ERR) THEN RaiseCommandError(s, <<>>, line)
    ELSE IF line = SchemaPrefix \o s.name \/ line = CSchemaPrefix \o s.name
    THEN Ret([s EXCEPT !.pc = "read_schema_block"], <<>>)
    ELSE Ret(s, <<>>)

\* read_schema returns the block: schema_update_config asks for the data,
\* update_telemetry decodes the schema (ok: the decoder returns) and makes
\* the name's Record.  io.BytesIO raises on False.
ReadSchemaBlock(s, block, ok) ==
    IF s.state = "SyncingConfig"
    THEN Ret([s EXCEPT !.pc = "read_data_line", !.schema = block],
             ConfData \o s.name \o CRLF)
    ELSE IF block.kind = "False" THEN Escapes(s, "TypeError", <<>>, <<>>)
    ELSE IF ~ok THEN Escapes(s, "decoder", <<>>, <<>>)
    ELSE NextName([s EXCEPT !.records = @ \cup {s.name}], s.rest)

\* read_data's loop on a line (lines 766-771).
ReadDataLine(s, line) ==
    IF line # CDataPrefix \o s.name THEN Ret(s, <<>>)
    ELSE IF StartsWith(line, ERR) THEN RaiseCommandError(s, <<>>, line)
    ELSE Ret([s EXCEPT !.pc = "read_data_block"], <<>>)

\* read_data returns the block: schema_update_config decodes the schema
\* (line 689) and then the data (line 699), and goes on; ok: the decoders
\* it comes to call return.  io.BytesIO raises on False: on the schema
\* before any decoder runs, on the data only after the schema's decoder
\* returned.
ReadDataBlock(s, data, ok) ==
    IF s.schema.kind = "False" THEN Escapes(s, "TypeError", <<>>, <<>>)
    ELSE IF ~ok THEN Escapes(s, "decoder", <<>>, <<>>)
    ELSE IF data.kind = "False" THEN Escapes(s, "TypeError", <<>>, <<>>)
    ELSE NextElement(s, s.rest)

\* run's second test on its line (lines 730-732).
RunDispatch(s) ==
    IF StartsWith(s.line, EmitPrefix)
    THEN Ret([s EXCEPT !.pc = "do_data_block", !.name = Split(s.line, 32)[2]],
             <<>>)
    ELSE Ret([s EXCEPT !.pc = "run_line"], <<>>)

\* run's loop on a line (lines 725-729).
RunLine(s, line) ==
    IF HasNonAscii(line)
    THEN Ret([s EXCEPT !.pc = "run_resync", !.line = line], <<>>)
    ELSE RunDispatch([s EXCEPT !.line = line])

\* do_data returns to run, or raises into its except clause.
Dispatched(s, kind) ==
    Ret([s EXCEPT !.pc = "run_line", !.event = Event(kind, s.name, <<>>, <<>>)],
        <<>>)

DoData_AnyName(s, data, ok) ==
    IF data.kind = "False" \/ data.value = <<>> THEN Dispatched(s, "no data")
    ELSE IF ok THEN Dispatched(s, "updated")
    ELSE Dispatched(s, "caught")

DoData_Uncaught(s, data, ok) ==
    IF data.kind = "False" \/ data.value = <<>> THEN Dispatched(s, "no data")
    ELSE IF s.name \notin s.records THEN Dispatched(s, "no record")
    ELSE IF ok THEN Dispatched(s, "updated")
    ELSE Escapes(s, "decoder", <<>>, <<>>)

\* do_data after its read_sized_block, and run's except clause (ok:
\* nothing that do_data calls on the block raises).
DoData(s, data, ok) ==
    IF data.kind = "False" \/ data.value = <<>> THEN Dispatched(s, "no data")
    ELSE IF s.name \notin s.records THEN Dispatched(s, "no record")
    ELSE IF ok THEN Dispatched(s, "updated")
    ELSE Dispatched(s, "caught")

\* ------------------------------------------------------------ Record

\* The field name 'x' and the prefixes '__STDDEV_' and '__MEAN_'.
FieldX == <<120>>
StddevPrefix == <<95, 95, 83, 84, 68, 68, 69, 86, 95>>
MeanPrefix == <<95, 95, 77, 69, 65, 78, 95>>

\* str.find(p) for a text p: the index of its first occurrence in s, or -1.
FindSub(s, p) ==
    LET I == {i \in 1..(Len(s) - Len(p) + 1) : SubSeq(s, i, i + Len(p) - 1) = p}
    IN IF I = {} THEN -1 ELSE (CHOOSE i \in I : \A j \in I : i <= j) - 1

\* key.split(p)[1] for a key that holds p: what stands between the first p
\* and the next one.
SplitSecond(key, p) ==
    LET rest == PyFrom(key, FindSub(key, p) + Len(p))
        m == FindSub(rest, p)
    IN IF m = -1 THEN rest ELSE PySlice(rest, 0, m)

\* A decoded sample with the one field x.
Sample(v) == [f \in {FieldX} |-> v]

\* _get_data(value, name) for a name without a dot.
GetData(value, name) == value[name]

\* The sum of vs[a..b], by halves.
RECURSIVE SumRange(_, _, _)
SumRange(vs, a, b) ==
    IF a > b THEN 0
    ELSE IF a = b THEN vs[a]
    ELSE LET mid == (a + b) \div 2
         IN SumRange(vs, a, mid) + SumRange(vs, mid + 1, b)

SumSeq(vs) == SumRange(vs, 1, Len(vs))

\* numpy.mean(values), as the fraction num / den.
Mean(values) == [num |-> SumSeq(values), den |-> Len(values)]

\* numpy.std(values), left uncomputed.
Std(values) == [std_of |-> values]

\* RecordSignal.__init__; the handlers are named by their keys in
\* _callbacks, which the sequence lists in the order of the dict.
NewSignal == [index |-> 0, callbacks |-> <<>>]

\* RecordSignal.connect
SignalConnect(sig) ==
    [index |-> sig.index + 1, callbacks |-> Append(sig.callbacks, sig.index)]

\* Connection.remove
SignalRemove(sig, i) ==
    LET Other(j) == j # i
    IN [sig EXCEPT !.callbacks = SelectSeq(@, Other)]

SignalUpdate_EverConnected(sig, value) ==
    [called |-> [j \in DOMAIN sig.callbacks |->
                    [handler |-> sig.callbacks[j], value |-> value]],
     ret |-> sig.index # 0]

\* RecordSignal.update: the handlers called with their argument, in
\* order, and the return value.
SignalUpdate(sig, value) ==
    [called |-> [j \in DOMAIN sig.callbacks |->
                    [handler |-> sig.callbacks[j], value |-> value]],
     ret |-> Len(sig.callbacks) # 0]

\* Record.__init__; signals lists the items of the dict in its order.
NewRecord == [history |-> <<>>, signals |-> <<>>]

\* Record.get_signal: the Record after the call.
GetSignal(rec, name) ==
    IF \E j \in DOMAIN rec.signals : rec.signals[j].name = name
    THEN rec
    ELSE [rec EXCEPT !.signals = Append(@, [name |-> name, signal |-> NewSignal])]

AppendHistory_EvictAtCap(history, struct) ==
    LET h == Append(history, struct)
    IN IF Len(h) >= MAX_HISTORY_SIZE THEN Tail(h) ELSE h

\* Lines 421-423 of Record.update.
AppendHistory(history, struct) ==
    LET h == Append(history, struct)
    IN IF Len(h) > MAX_HISTORY_SIZE THEN Tail(h) ELSE h

SignalValue_NewSample(key, history, struct) ==
    IF StartsWith(key, StddevPrefix)
    THEN Std(<<GetData(struct, SplitSecond(key, StddevPrefix))>>)
    ELSE IF StartsWith(key, MeanPrefix)
    THEN Mean(<<GetData(struct, SplitSecond(key, MeanPrefix))>>)
    ELSE GetData(struct, key)

\* The value Record.update computes for the signal of a key (lines
\* 426-435).
SignalValue(key, history, struct) ==
    IF StartsWith(key, StddevPrefix)
    THEN LET remaining == SplitSecond(key, StddevPrefix)
         IN Std([i \in DOMAIN history |-> GetData(history[i], remaining)])
    ELSE IF StartsWith(key, MeanPrefix)
    THEN LET remaining == SplitSecond(key, MeanPrefix)
         IN Mean([i \in DOMAIN history |-> GetData(history[i], remaining)])
    ELSE GetData(struct, key)

\* The handlers that the signals call, each with its signal's key, in the
\* order of the calls.
RECURSIVE Calls(_, _)
Calls(signals, results) ==
    IF signals = <<>> THEN <<>>
    ELSE [j \in DOMAIN Head(results).called |->
             [name |-> Head(signals).name,
              handler |-> Head(results).called[j].handler,
              value |-> Head(results).called[j].value]]
         \o Calls(Tail(signals), Tail(results))

\* Record.update: the Record after it, the handlers it called and its
\* return value.
RecordUpdate(rec, struct) ==
    LET h == AppendHistory(rec.history, struct)
        results == [j \in DOMAIN rec.signals |->
                       SignalUpdate(rec.signals[j].signal,
                                    SignalValue(rec.signals[j].name, h, struct))]
        count == Cardinality({j \in DOMAIN results : results[j].ret})
    IN [record |-> [rec EXCEPT !.history = h],
        calls |-> Calls(rec.signals, results),
        ret |-> count # 0]

\* What no operation of a Record changes.
recordFrame == <<devices, error_count, poll_count, write_data, read_data,
                 emit_count, stream_poll_count, reader, session, result, sched,
                 dispatch, any_data_read, run_any_data_read, sent, flushed, cycle_data, k,
                 budget, skips, accepted, lines, stale>>

\* The history of a Record that was updated with the samples 1, 2, ..., two
\* fewer than it can hold.
LongHistory == [i \in 1..(MAX_HISTORY_SIZE - 2) |-> Sample(i)]

\* The values of x in the samples of SpecRecord.
SampleValues == {1, 2, 3}

\* The keys of the signals in SpecRecord.
SignalNames == {FieldX, MeanPrefix \o FieldX}

\* record.update(struct) on the Record of the session.
RecordUpdated(struct) ==
    LET u == RecordUpdate(record, struct)
    IN /\ record' = u.record
       /\ updates' = [arrived |-> Append(updates.arrived, struct),
                      calls |-> u.calls, ret |-> u.ret]

\* record.archive.read of a block that the decoder accepts: the sample
\* whose x is the block's first byte.
Decode(data) == Sample(data[1])

\* record.update(struct) raises in its loop over the signals, the sample
\* appended before (line 421): _get_data finds no field for a signal's key
\* or a handler raises, n handlers having been called.
RecordUpdateRaises(struct, n) ==
    LET u == RecordUpdate(record, struct)
    IN /\ record.signals # <<>>
       /\ n <= Len(u.calls)
       /\ record' = u.record
       /\ updates' = [arrived |-> Append(updates.arrived, struct),
                      calls |-> SubSeq(u.calls, 1, n), ret |-> FALSE]

\* What do_data does to the Record of its channel (lines 784-786) when it
\* ends as `kind`.  It ends caught when archive.read raises, the Record as
\* it was; when record.update raises; and when _set_tree_widget_data
\* raises after record.update returned.
DoDataRecord(kind, data) ==
    IF kind = "updated" THEN RecordUpdated(Decode(data))
    ELSE IF kind = "caught"
    THEN \/ UNCHANGED <<record, updates>>
         \/ \E n \in 0..MaxConnects : RecordUpdateRaises(Decode(data), n)
         \/ RecordUpdated(Decode(data))
    ELSE UNCHANGED <<record, updates>>

\* do_data calls record.update(struct); at most MaxUpdates calls in a
\* behaviour.
RecordUpdateCall(struct) ==
    /\ \/ Len(updates.arrived) < MaxUpdates
       \/ /\ Len(updates.arrived) >= Len(LongHistory)
          /\ Len(updates.arrived) < Len(LongHistory) + MaxUpdates
    /\ RecordUpdated(struct)
    /\ last' = Step("update", 0)
    /\ UNCHANGED recordFrame

\* A plot or a tree item asks for the signal of a key it has not asked for
\* before.
GetSignalCall(name) ==
    /\ GetSignal(record, name) # record
    /\ record' = GetSignal(record, name)
    /\ last' = Step("get_signal", 0)
    /\ UNCHANGED <<updates, recordFrame>>

\* The connects of all signals so far.
RECURSIVE Connects(_)
Connects(signals) ==
    IF signals = <<>> THEN 0
    ELSE Head(signals).signal.index + Connects(Tail(signals))

\* signal.connect(handler) on the j-th signal.
ConnectCall(j) ==
    /\ j \in DOMAIN record.signals
    /\ Connects(record.signals) < MaxConnects
    /\ record' = [record EXCEPT !.signals[j].signal = SignalConnect(@)]
    /\ last' = Step("connect", 0)
    /\ UNCHANGED <<updates, recordFrame>>

\* connection.remove() of the handler i of the j-th signal.
RemoveCall(j, i) ==
    /\ j \in DOMAIN record.signals
    /\ i \in Range(record.signals[j].signal.callbacks)
    /\ record' = [record EXCEPT !.signals[j].signal = SignalRemove(@, i)]
    /\ last' = Step("remove", 0)
    /\ UNCHANGED <<updates, recordFrame>>

\* ------------------------------------------------------------ session steps

\* What no step of a session changes.
sessionFrame == <<devices, record, updates, emit_count, stream_poll_count,
                  backoffVars,                  schedVars, accepted, lines>>

\* Device.start up to its first suspension: the quiescing command is
\* queued.
SessionStart(d) ==
    /\ session[d].pc = "start"
    /\ write_data' = [write_data EXCEPT ![d] = @ \o TelStop]
    /\ session' = [session EXCEPT ![d].pc = "gate", ![d].event = NoEvent]
    /\ last' = Step("start", d)
    /\ UNCHANGED <<read_data, reader, result, stale, sessionFrame>>

SessionGate_PollsOnly(d) ==
    /\ session[d].pc = "gate"
    /\ ~(stream_poll_count[d] < 5)
    /\ read_data' = [read_data EXCEPT ![d] = <<>>]
    /\ stale' = [stale EXCEPT ![d] = FALSE]
    /\ LET r == UpdateConfig([session[d] EXCEPT !.event = NoEvent])
       IN /\ session' = [session EXCEPT ![d] = r.s]
          /\ write_data' = [write_data EXCEPT ![d] = @ \o r.w]
    /\ last' = Step("ignore_all", d)
    /\ UNCHANGED <<reader, result, sessionFrame>>

\* The loop of Device.start finds its condition false: ignore_all, and
\* update_config up to its first readline.  (While the condition is true
\* the task sleeps and changes nothing.)
SessionGate(d) ==
    /\ session[d].pc = "gate"
    /\ ~(stream_poll_count[d] < 5 \/ emit_count[d] < 1)
    /\ read_data' = [read_data EXCEPT ![d] = <<>>]
    /\ stale' = [stale EXCEPT ![d] = FALSE]
    /\ LET r == UpdateConfig([session[d] EXCEPT !.event = NoEvent])
       IN /\ session' = [session EXCEPT ![d] = r.s]
          /\ write_data' = [write_data EXCEPT ![d] = @ \o r.w]
    /\ last' = Step("ignore_all", d)
    /\ UNCHANGED <<reader, result, sessionFrame>>

\* Where a session goes on when the readline it is suspended in returns.
AfterLine(s, line) ==
    CASE s.pc = "command_first" -> CommandFirst(s, line)
      [] s.pc = "command_next" -> CommandLine(s, line)
      [] s.pc = "read_schema_line" -> ReadSchemaLine(s, line)
      [] s.pc = "read_data_line" -> ReadDataLine(s, line)
      [] s.pc = "run_line" -> RunLine(s, line)

\* Where a session goes on when the read_sized_block it is suspended in
\* returns.
AfterBlock(s, block, ok) ==
    CASE s.pc = "read_schema_block" -> ReadSchemaBlock(s, block, ok)
      [] s.pc = "read_data_block" -> ReadDataBlock(s, block, ok)
      [] s.pc = "do_data_block" -> DoData(s, block, ok)

\* The session, standing at the readline of position pc, calls it or goes
\* on in it after a notification; when readline returns, the session runs
\* on to its next read: AfterLine(s, line).
SessionReadline(d, pc) ==
    /\ session[d].pc = pc
    /\ \/ reader[d].st = "idle"
       \/ reader[d].st = "woken" /\ reader[d].op = "readline"
    /\ ReadlineCore(d)
    /\ LET c == ReadlineCheck(read_data[d])
           r == AfterLine([session[d] EXCEPT !.event = NoEvent], c.value)
       IN IF c.done
          THEN /\ session' = [session EXCEPT ![d] = r.s]
               /\ write_data' = [write_data EXCEPT ![d] = @ \o r.w]
          ELSE UNCHANGED <<session, write_data>>
    /\ UNCHANGED <<accepted, lines>>

\* The same at a read_sized_block; ok is whether what the session calls on
\* the block returns.  At most MaxUpdates samples reach a Record.
SessionReadSizedBlock(d, pc) ==
    /\ session[d].pc = pc
    /\ \/ reader[d].st = "idle"
       \/ reader[d].st = "woken" /\ reader[d].op = "read_sized_block"
    /\ ReadSizedBlockCore(d)
    /\ LET c == ReadSizedBlockCheck(read_data[d])
       IN IF c.done
          THEN \E ok \in BOOLEAN :
                 LET r == AfterBlock([session[d] EXCEPT !.event = NoEvent],
                                     BlockResult(c), ok)
                 IN /\ session' = [session EXCEPT ![d] = r.s]
                    /\ write_data' = [write_data EXCEPT ![d] = @ \o r.w]
                    /\ IF pc = "do_data_block"
                       THEN /\ DoDataRecord(r.s.event.kind, c.value)
                            /\ Len(updates'.arrived) <= MaxUpdates
                       ELSE UNCHANGED <<record, updates>>
          ELSE UNCHANGED <<session, write_data, record, updates>>
    /\ UNCHANGED <<accepted, lines>>

\* line 828
CommandFirstLine(d) == SessionReadline(d, "command_first")

\* line 841
CommandNextLine(d) == SessionReadline(d, "command_next")

\* line 755
ReadSchemaReadline(d) == SessionReadline(d, "read_schema_line")

\* line 761
ReadSchemaReadBlock(d) ==
    SessionReadSizedBlock(d, "read_schema_block")

\* line 766
ReadDataReadline(d) == SessionReadline(d, "read_data_line")

\* line 772
ReadDataReadBlock(d) == SessionReadSizedBlock(d, "read_data_block")

\* line 725
RunReadline(d) == SessionReadline(d, "run_line")

\* line 729: run calls resynchronize.
RunResynchronize(d) ==
    /\ session[d].pc = "run_resync"
    /\ ResynchronizeCore(d)
    /\ session' = [session EXCEPT ![d].event = NoEvent]

\* resynchronize goes on after a notification, and run when it returns.
RunResumeResynchronize(d) ==
    /\ session[d].pc = "run_resync"
    /\ ResumeResynchronizeCore(d)
    /\ session' = IF Len(read_data[d]) = reader[d].oldlen
                  THEN [session EXCEPT ![d] = RunDispatch(session[d]).s]
                  ELSE session
    /\ UNCHANGED write_data

\* line 775
DoDataReadBlock(d) == SessionReadSizedBlock(d, "do_data_block")

\* 'conf set '
ConfSet == <<99, 111, 110, 102, 32, 115, 101, 116, 32>>

\* str.lower() of a text of characters below 256: the capitals of ASCII
\* and of latin1.
Lower(s) ==
    [i \in DOMAIN s |->
        IF s[i] \in 65..90 \cup 192..214 \cup 216..222 THEN s[i] + 32 ELSE s[i]]

\* str.strip(' >')
RECURSIVE StripChars(_)
StripChars(s) ==
    IF s = <<>> THEN s
    ELSE IF s[1] \in {32, 62} THEN StripChars(Tail(s))
    ELSE IF s[Len(s)] \in {32, 62} THEN StripChars(SubSeq(s, 1, Len(s) - 1))
    ELSE s

\* The value config_item_changed writes for the value the user entered
\* (lines 808-812): of an EnumType's text with a ':' what follows the last
\* ':' without the ' ' and '>' around it, of a BooleanType's true or false
\* 1 or 0.
ConfigValue(value, schema) ==
    LET parts == Split(value, 58)
    IN IF schema = "EnumType" /\ 58 \in Range(value)
       THEN StripChars(parts[Len(parts)])
       ELSE IF schema = "BooleanType"
               /\ Lower(value) \in {<<116, 114, 117, 101>>, <<102, 97, 108, 115, 101>>}
       THEN IF Lower(value) = <<116, 114, 117, 101>> THEN <<49>> ELSE <<48>>
       ELSE value

\* Device.config_item_changed: what it queues with write_line.
ConfigItemChangedLine(s, name, value, schema) ==
    IF s.updating_config THEN <<>>
    ELSE ConfSet \o name \o <<32>> \o ConfigValue(value, schema) \o CRLF

\* The user edits the config item `name`; edits come while fewer than
\* MaxQueued bytes are queued.
ConfigItemChanged(d, name, value, schema) ==
    /\ Len(write_data[d]) < MaxQueued
    /\ write_data' = [write_data EXCEPT
                        ![d] = @ \o ConfigItemChangedLine(session[d], name,
                                                          value, schema)]
    /\ last' = [Step("config_item_changed", d) EXCEPT
                  !.data = ConfigItemChangedLine(session[d], name, value, schema)]
    /\ UNCHANGED <<read_data, reader, result, stale, session, sessionFrame>>

\* DeviceStream.maybe_emit_one with a non-empty queue, as the scheduler
\* calls it once a cycle; the scheduler's own position is left out.
Flush(d) ==
    /\ MaybeEmitOne(write_data[d]).emitted
    /\ write_data' = [write_data EXCEPT ![d] = MaybeEmitOne(@).write_data]
    /\ emit_count' = [emit_count EXCEPT ![d] = Sat(@)]
    /\ last' = Step("maybe_emit_one", d)
    /\ UNCHANGED <<devices, record, updates, read_data, stream_poll_count, readerVars, session,
                   backoffVars, schedVars, accepted>>

\* DeviceStream.poll, as the scheduler calls it; the scheduler's own
\* position is left out, and so are the calls that follow the CountSat-th.
PollCall(d) ==
    /\ stream_poll_count[d] < CountSat
    /\ stream_poll_count' = [stream_poll_count EXCEPT ![d] = Sat(@)]
    /\ last' = Step("poll", d)
    /\ UNCHANGED <<devices, record, updates, write_data, read_data, emit_count, readerVars,
                   session, backoffVars, schedVars, accepted>>

\* Device.process_message of device d on a frame while the session is at
\* work.  The device sends a frame when everything queued for it has been
\* written and fewer than maxBuffered bytes wait in the buffer.
Feed(d, data, maxBuffered) ==
    LET pm == ProcessMessage(read_data[d], data)
    IN /\ write_data[d] = <<>>
       /\ Len(read_data[d]) < maxBuffered
       /\ read_data' = [read_data EXCEPT ![d] = pm.read_data]
       /\ reader' = IF pm.notified THEN [reader EXCEPT ![d] = NotifyAll(@)]
                    ELSE reader
       /\ stale' = IF Len(pm.read_data) > Len(read_data[d])
                   THEN [stale EXCEPT ![d] = TRUE] ELSE stale
       /\ last' = Step("receive", d)
       /\ UNCHANGED <<write_data, session, result, sessionFrame>>

\* Frame data the transport delivers to the scheduler: well-formed with one
\* byte and with none, and with a wrong marker.
SchedData == {<<65, 1, 1, 97>>, <<65, 1, 0>>, <<64, 1, 1, 97>>}

\* Arbitration ids: sources 5, 7 and 9 (no device), and source 7 with
\* prefix bits above the source byte.
SchedIds == {1280, 1792, 2304, 67328}

SchedMessages == [arbitration_id : SchedIds, data : SchedData]

\* The budget of a transport that may leave any number of polls unanswered.
NoLimit == 0 - 1

\* The state in which the scheduler is at the top of its loop, no poll of
\* any device has timed out since its last answer (error_count and
\* poll_count are 0, as Device.__init__ sets them and as an answered poll
\* leaves them), and no device has received data.  A device that was never
\* polled has its session's first command queued; one that was polled
\* polls[d] times was flushed before.
InitAll(devs, polls, emitted, timeouts, sess, hist) ==
    /\ devices = devs
    /\ record = [NewRecord EXCEPT !.history = hist]
    /\ updates = [arrived |-> hist, calls |-> <<>>, ret |-> FALSE]
    /\ error_count = [d \in Range(devs) |-> 0]
    /\ poll_count = [d \in Range(devs) |-> 0]
    /\ k = [d \in Range(devs) |-> 0]
    /\ write_data = [d \in Range(devs) |->
                       IF polls[d] = 0 /\ sess[d].pc # "start" THEN TelStop ELSE <<>>]
    /\ read_data = [d \in Range(devs) |-> <<>>]
    /\ emit_count = emitted
    /\ stream_poll_count = [d \in Range(devs) |-> Min2(CountSat, polls[d])]
    /\ reader = [d \in Range(devs) |-> Idle]
    /\ session = sess
    /\ result = [d \in Range(devs) |-> [kind |-> "None", value |-> <<>>]]
    /\ sched = [pc |-> "top", i |-> 0]
    /\ dispatch = Dispatching
    /\ any_data_read = FALSE
    /\ run_any_data_read = FALSE
    /\ sent = <<>>
    /\ flushed = {}
    /\ cycle_data = FALSE
    /\ budget = timeouts
    /\ skips = [d \in Range(devs) |-> 0]
    /\ accepted = [d \in Range(devs) |-> <<>>]
    /\ lines = [d \in Range(devs) |-> <<>>]
    /\ stale = [d \in Range(devs) |-> FALSE]
    /\ last = Step("init", 0)

\* The same with a Record that has not been updated, and with one write
\* frame sent to every device that was polled: the one that took the
\* session's first command off the queue.
InitWith(devs, polls, timeouts, sess) ==
    InitAll(devs, polls, [d \in Range(devs) |-> IF polls[d] = 0 THEN 0 ELSE 1],
            timeouts, sess, <<>>)

\* The same with every session past Device.start's first write, its further
\* position left out: it calls the read operations in any order.
InitOf(devs, polls, timeouts) ==
    InitWith(devs, polls, timeouts, [d \in Range(devs) |-> [pc |-> "any"]])

\* TviewMainWindow._open with devices 5 and 7, each session's start()
\* having queued its first command.
Init == InitOf(<<5, 7>>, [d \in {5, 7} |-> 0], MaxTimeouts)

\* TviewMainWindow._open with device 5 alone, on a transport that may
\* leave any number of its polls unanswered: error_count gets from 0 to
\* the cap by ERROR_CAP timeouts in a row and the cycles between them.
InitBackoff == InitOf(<<5>>, [d \in {5} |-> 0], NoLimit)

SchedNext ==
    \/ CycleStart
    \/ EmitAnyWrites
    \/ SkipBackoff
    \/ Poll
    \/ \E m \in SchedMessages : Receive(m, MaxData)
    \/ Answered
    \/ Timeout

Next == SchedNext

Spec == Init /\ [][Next]_vars

\* Frame data and arbitration ids of SpecBackoff: the device's answer, and
\* a frame of source 9.
BackoffMessages == [arbitration_id : {1280, 2304}, data : {<<65, 1, 0>>}]

NextBackoff ==
    \/ CycleStart
    \/ EmitAnyWrites
    \/ SkipBackoff
    \/ Poll
    \/ \E m \in BackoffMessages : Receive(m, MaxData)
    \/ Answered
    \/ Timeout

SpecBackoff == InitBackoff /\ [][NextBackoff]_vars

\* TviewMainWindow._open with devices 5 and 7 on a transport that leaves
\* at most MaxTimeouts polls unanswered, of either device, or with device 5
\* alone on a transport that may leave every poll unanswered.
InitFair ==
    \/ InitOf(<<5, 7>>, [d \in {5, 7} |-> 0], MaxTimeouts)
    \/ InitOf(<<5>>, [d \in {5} |-> 0], NoLimit)

\* Messages of SpecFair: frames without data of sources 5, 7 and 9.
FairMessages == [arbitration_id : {1280, 1792, 2304}, data : {<<65, 1, 0>>}]

\* A frame of the polled device arrives in its dispatch window.
Answer ==
    /\ sched.pc = "window"
    /\ ~dispatch.done
    /\ \E m \in FairMessages :
          Predicate(m, devices[sched.i]) /\ Receive(m, MaxData)

NextFair ==
    \/ CycleStart
    \/ EmitAnyWrites
    \/ SkipBackoff
    \/ Poll
    \/ \E m \in FairMessages : Receive(m, MaxData)
    \/ Answered
    \/ Timeout

\* The event loop runs the scheduler task whenever it is runnable, and
\* every dispatch window ends, by a frame of the polled device or by the
\* timeout of asyncio.wait_for.
SpecFair ==
    /\ InitFair
    /\ [][NextFair]_vars
    /\ WF_vars(CycleStart)
    /\ WF_vars(EmitAnyWrites)
    /\ WF_vars(SkipBackoff)
    /\ WF_vars(Poll)
    /\ WF_vars(Answer \/ Timeout)
    /\ WF_vars(Answered)

\* The poll of device 5 times out.
Silent5 == sched.pc = "window" /\ devices[sched.i] = 5 /\ Timeout

\* The transport of the end-to-end test: each poll of device 7 is answered
\* by a frame of device 7, and a poll of device 5 times out, as long as the
\* transport's budget allows, or is answered by a frame of device 5.
NextEndToEnd ==
    \/ CycleStart
    \/ EmitAnyWrites
    \/ SkipBackoff
    \/ Poll
    \/ Answer
    \/ Answered
    \/ Silent5

\* TviewMainWindow._open with devices 5 and 7 on a transport that may
\* leave any number of polls unanswered: while device 5 is silent its
\* error_count gets from 0 to the cap in ERROR_CAP timeouts and the cycles
\* between them, in each of which device 7 is polled.
InitEndToEnd ==
    InitOf(<<5, 7>>, [d \in {5, 7} |-> 0], NoLimit)

SpecEndToEnd == InitEndToEnd /\ [][NextEndToEnd]_vars

\* A Record that was never updated, or was updated with the samples of
\* LongHistory.
InitRecord ==
    \E hist \in {<<>>, LongHistory} :
        InitAll(<<5>>, [d \in {5} |-> CountSat],
                [d \in {5} |-> 1], 0,
                [d \in {5} |-> [pc |-> "any"]], hist)

\* The Record of a channel: updates with samples, and the user interface
\* attaching and detaching subscribers of its signals.
NextRecord ==
    \/ \E v \in SampleValues : RecordUpdateCall(Sample(v))
    \/ \E name \in SignalNames : GetSignalCall(name)
    \/ \E j \in 1..2 : ConnectCall(j)
    \/ \E j \in 1..2 : \E i \in 0..(MaxConnects - 1) : RemoveCall(j, i)

SpecRecord == InitRecord /\ [][NextRecord]_vars

\* Device.process_message as the scheduler's dispatch loop calls it for a
\* message of device d; the scheduler's own position is left out.
ProcessMessageCall(d, data, maxData) ==
    /\ Deliver(d, data, maxData)
    /\ last' = [op |-> "receive", dev |-> d, src |-> d, data |-> data,
                ret |-> ProcessMessage(read_data[d], data).ret,
                ec |-> error_count[d]]
    /\ UNCHANGED <<devices, record, updates, session, write_data, emit_count, stream_poll_count, result,
                   lines, backoffVars, schedVars>>

\* 62 bytes 'a'.
Long == [i \in 1..62 |-> 97]

\* Device.write(data), called by a task between two steps of the
\* scheduler: a session's write_line, or a handler of the user interface.
WriteCall(d, data) ==
    /\ Len(write_data[d]) < MaxQueued
    /\ write_data' = [write_data EXCEPT ![d] = @ \o data]
    /\ last' = [Step("write", d) EXCEPT !.data = data]
    /\ UNCHANGED <<devices, record, updates, session, read_data, emit_count, stream_poll_count,
                   readerVars, backoffVars, schedVars, accepted>>

\* What the tasks of SpecWrite write: 62 bytes 'a', and "b\n".
WriteData == {Long, <<98, 10>>}

\* TviewMainWindow._open with device 5, its session's start() having
\* queued its first command.
InitWrite == InitOf(<<5>>, [d \in {5} |-> 0], 0)

\* The scheduler with every poll answered, and tasks that write to device
\* 5.
NextWrite ==
    \/ CycleStart
    \/ EmitAnyWrites
    \/ Poll
    \/ Answer
    \/ Answered
    \/ \E data \in WriteData : WriteCall(5, data)

SpecWrite == InitWrite /\ [][NextWrite]_vars

\* Devices 5 and 7, each with its session's first command queued; device 5
\* may leave polls unanswered.
InitFlush ==
    InitOf(<<5, 7>>, [d \in {5, 7} |-> 0], MaxTimeouts)

\* The scheduler with a device in backoff while a task writes to it.
NextFlush ==
    \/ CycleStart
    \/ EmitAnyWrites
    \/ SkipBackoff
    \/ Poll
    \/ Answer
    \/ Answered
    \/ Silent5
    \/ \E data \in WriteData : WriteCall(5, data)

SpecFlush == InitFlush /\ [][NextFlush]_vars

\* TviewMainWindow._open with device 5, whose session has not run yet and
\* whose first MaxGateTimeouts polls may all stay unanswered.
InitGate ==
    InitWith(<<5>>, [d \in {5} |-> 0], MaxGateTimeouts,
             [d \in {5} |-> NewSession])

\* The scheduler and the session of device 5 up to the end of the loop of
\* Device.start.
NextGate ==
    \/ CycleStart
    \/ EmitAnyWrites
    \/ SkipBackoff
    \/ Poll
    \/ Answer
    \/ Answered
    \/ Timeout
    \/ SessionStart(5)
    \/ SessionGate(5)

\* The event loop runs the scheduler task and the session task whenever
\* they are runnable (the sleep of the loop of Device.start ends), and
\* every dispatch window ends, by a frame of the polled device or by the
\* timeout of asyncio.wait_for.
SpecGate ==
    /\ InitGate
    /\ [][NextGate]_vars
    /\ WF_vars(CycleStart)
    /\ WF_vars(EmitAnyWrites)
    /\ WF_vars(SkipBackoff)
    /\ WF_vars(Poll)
    /\ WF_vars(Answer \/ Timeout)
    /\ WF_vars(Answered)
    /\ WF_vars(SessionStart(5))
    /\ WF_vars(SessionGate(5))

\* Frame data of SpecStream.  Well-formed: "a", " ", "\n", "\r\n", "b"
\* followed by a byte past the declared length, and no data.  Malformed:
\* two bytes only, wrong marker, wrong channel, declared length past the
\* end, and declared length 62 with 62 bytes.
StreamData ==
    {<<65, 1, 1, 97>>, <<65, 1, 1, 32>>, <<65, 1, 1, 10>>, <<65, 1, 2, 13, 10>>,
     <<65, 1, 1, 98, 10>>, <<65, 1, 0>>,
     <<65, 1>>, <<64, 1, 1, 97>>, <<65, 0, 1, 97>>, <<65, 1, 2, 97>>,
     <<65, 1, 62>> \o Long}

\* One device whose session is past its start-up gate: polled five times
\* or more, flushed, nothing buffered.
InitStream ==
    InitOf(<<5>>, [d \in {5} |-> CountSat], 0)

\* The session reads lines while frames arrive.
NextStream ==
    \/ \E data \in StreamData : ProcessMessageCall(5, data, MaxLineData)
    \/ Readline(5)
    \/ ResumeReadline(5)

SpecStream == InitStream /\ [][NextStream]_vars

\* Messages of SpecTasks: of device 5 "a", "\n", no data and a wrong
\* marker, and the same of source 9.
TaskMessages ==
    [arbitration_id : {1280, 2304},
     data : {<<65, 1, 1, 97>>, <<65, 1, 1, 10>>, <<65, 1, 0>>, <<64, 1, 1, 97>>}]

\* One device past its start-up gate, polled by the scheduler.
InitTasks ==
    InitOf(<<5>>, [d \in {5} |-> CountSat], MaxTimeouts)

\* The scheduler task and the session task of device 5, which calls any of
\* the three read operations.
NextTasks ==
    \/ CycleStart
    \/ EmitAnyWrites
    \/ SkipBackoff
    \/ Poll
    \/ \E m \in TaskMessages : Receive(m, MaxTaskData)
    \/ Answered
    \/ Timeout
    \/ Readline(5)
    \/ ResumeReadline(5)
    \/ ReadSizedBlock(5)
    \/ ResumeReadSizedBlock(5)
    \/ Resynchronize(5)
    \/ ResumeResynchronize(5)

SpecTasks == InitTasks /\ [][NextTasks]_vars

\* Frame data of SpecBlock: a block header cut after its fourth byte
\* ('X', 2, 0, 0), its fifth byte with the two bytes "ab" of the block, the
\* byte "c", a whole block of length 0, the header of a block of length
\* 256, and the headers of blocks of length 2^24 + 1 and 2^24.
BlockData ==
    {<<65, 1, 4, 88, 2, 0, 0>>, <<65, 1, 3, 0, 97, 98>>, <<65, 1, 1, 99>>,
     <<65, 1, 5, 88, 0, 0, 0, 0>>, <<65, 1, 5, 88, 0, 1, 0, 0>>,
     <<65, 1, 5, 88, 1, 0, 0, 1>>, <<65, 1, 5, 88, 0, 0, 0, 1>>}

\* The session reads sized blocks while frames arrive.
NextBlock ==
    \/ \E data \in BlockData : ProcessMessageCall(5, data, MaxBlockData)
    \/ ReadSizedBlock(5)
    \/ ResumeReadSizedBlock(5)

SpecBlock == InitStream /\ [][NextBlock]_vars

\* The data of a frame that carries the bytes b.
Frame(b) == <<65, 1, Len(b)>> \o b

\* Frames of SpecSync, one line or one block each: "a", "OK", "ERR",
\* "emit a", "cschema a", "schema a", "cdata a", "a.b 3", a block of one
\* byte, and "ERR" with "OK" on the line after it.
SyncData ==
    {Frame(<<97, 10>>), Frame(OK \o <<10>>), Frame(ERR \o <<10>>),
     Frame(EmitPrefix \o <<97, 10>>),
     Frame(CSchemaPrefix \o <<97, 10>>),
     Frame(SchemaPrefix \o <<97, 10>>),
     Frame(CDataPrefix \o <<97, 10>>),
     Frame(<<97, 46, 98, 32, 51, 10>>),
     Frame(<<88, 1, 0, 0, 0, 7>>),
     Frame(ERR \o <<10>> \o OK \o <<10>>)}

\* The frames that end the device's answer to a command.
Terminators == {Frame(OK \o <<10>>), Frame(ERR \o <<10>>)}

\* TviewMainWindow._open with device 5: its session has not run yet.
InitSync ==
    InitWith(<<5>>, [d \in {5} |-> 0], 0,
             [d \in {5} |-> NewSession])

\* A frame of SpecSync: the device's answer to one command has at most
\* MaxAnswer lines before its terminator.
SyncFeed(d, data) ==
    /\ Len(session[d].seen) < MaxAnswer \/ data \in Terminators
    /\ Feed(d, data, MaxBuffered)

\* The session of device 5 from its start on, the scheduler's calls of
\* its stream and the frames of the device.
NextSync ==
    \/ SessionStart(5)
    \/ SessionGate(5)
    \/ CommandFirstLine(5)
    \/ CommandNextLine(5)
    \/ ReadSchemaReadline(5)
    \/ ReadSchemaReadBlock(5)
    \/ ReadDataReadline(5)
    \/ ReadDataReadBlock(5)
    \/ RunReadline(5)
    \/ DoDataReadBlock(5)
    \/ Flush(5)
    \/ PollCall(5)
    \/ \E data \in SyncData : SyncFeed(5, data)

SpecSync == InitSync /\ [][NextSync]_vars

\* The edits of SpecConfig: the item x set to 1, the boolean item x set
\* to true, and the enum item x set to '<M: 3>'.
ConfigEdits ==
    {[name |-> FieldX, value |-> <<49>>, schema |-> "other"],
     [name |-> FieldX, value |-> <<116, 114, 117, 101>>, schema |-> "BooleanType"],
     [name |-> FieldX, value |-> <<60, 77, 58, 32, 51, 62>>, schema |-> "EnumType"]}

\* The session of device 5 from its start on with a device that has no
\* config items and no channels and answers every command with OK or ERR
\* alone, so that command returns or raises at the first line it reads,
\* while the user edits config items.
NextConfig ==
    \/ SessionStart(5)
    \/ SessionGate(5)
    \/ CommandFirstLine(5)
    \/ RunReadline(5)
    \/ Flush(5)
    \/ PollCall(5)
    \/ \E data \in Terminators : SyncFeed(5, data)
    \/ \E e \in ConfigEdits : ConfigItemChanged(5, e.name, e.value, e.schema)

SpecConfig == InitSync /\ [][NextConfig]_vars

\* The session as update_telemetry leaves it when run starts: the one
\* channel "a" has its Record.
RunningSession ==
    [NewSession EXCEPT !.state = "Running", !.pc = "run_line",
                       !.message = TelList, !.records = {<<97>>},
                       !.schema_config = "True"]

\* Frame data in Running: the lines "emit a", "emit b" (a channel without
\* Record), "emit a \xff" and "a"; blocks of one byte, of no byte and a
\* header that declares 2^24 + 1 bytes; and a frame without data.
RunData ==
    {Frame(EmitPrefix \o <<97, 10>>),
     Frame(EmitPrefix \o <<98, 10>>),
     Frame(EmitPrefix \o <<97, 32, 255, 10>>),
     Frame(<<97, 10>>),
     Frame(<<88, 1, 0, 0, 0, 7>>),
     Frame(<<88, 0, 0, 0, 0>>),
     Frame(<<88, 1, 0, 0, 1>>),
     Frame(<<>>)}

\* Device 5 with its session at the first readline of run: the gate is
\* passed, every poll was answered, and four write frames took the
\* session's commands (tel stop, conf list, tel list, tel schema a) off the
\* queue.
InitRun ==
    InitAll(<<5>>, [d \in {5} |-> CountSat],
            [d \in {5} |-> 4], 0, [d \in {5} |-> RunningSession], <<>>)

\* The run loop of device 5 and the frames of the device, at most
\* MaxRunBuffered bytes waiting when one comes.
NextRun ==
    \/ RunReadline(5)
    \/ RunResynchronize(5)
    \/ RunResumeResynchronize(5)
    \/ DoDataReadBlock(5)
    \/ \E data \in RunData : Feed(5, data, MaxRunBuffered)

SpecRun == InitRun /\ [][NextRun]_vars

\* ------------------------------------------------------------ claims

\* C1: immediately after a device's k-th consecutive poll timeout (k >= 1,
\* no answered poll of that device in between) its error_count and its
\* poll_count both equal min(1000, k).
C1_BackoffValue ==
    last.op = "timeout" =>
        /\ k[last.dev] >= 1
        /\ error_count[last.dev] = (IF k[last.dev] > 1000 THEN 1000 ELSE k[last.dev])
        /\ poll_count[last.dev] = error_count[last.dev]

\* A timeout past the cap: the 1001st in a row.
C1_Witness ==
    /\ last.op = "timeout"
    /\ k[last.dev] = 1001
    /\ error_count[last.dev] = 1000
    /\ poll_count[last.dev] = 1000

\* C2: when a device's own poll ends by a frame carrying its address, its
\* error_count and poll_count are 0 afterwards, whatever they were before:
\* such a frame makes _dispatch_until return, the scheduler's next step is
\* the one after the answered poll, and that step leaves both counters 0.
C2_ResetOnSuccess ==
    /\ [](last.op = "answered" =>
            /\ error_count[last.dev] = 0
            /\ poll_count[last.dev] = 0)
    /\ [][/\ (last'.op = "receive" /\ last'.src = last'.dev) => dispatch'.done
          /\ dispatch.done => /\ last'.op = "answered"
                              /\ last'.dev = devices[sched.i]
                              /\ last.op = "receive" /\ last.src = last'.dev
         ]_vars

\* An answered poll of a device whose error_count was at the cap.
C2_Witness ==
    /\ last.op = "answered"
    /\ last.src = last.dev
    /\ last.ec = 1000
    /\ error_count[last.dev] = 0
    /\ poll_count[last.dev] = 0

\* C4: while scheduler cycles keep running, every device is polled again
\* and again, whatever the other devices do, and at most 1000 cycles skip a
\* device between two consecutive polls of it.
C4_NoStarvation ==
    /\ \A d \in {5, 7} : []<>(d \in DevIds => last.op = "poll" /\ last.dev = d)
    /\ [](\A d \in DevIds : skips[d] <= 1000)

\* Device 5, which has not answered any poll since the start, is polled
\* once more after its error_count reached the cap and 1000 cycles skipped
\* it.
C4_Witness ==
    /\ last.op = "poll"
    /\ last.dev = 5
    /\ skips[5] = 0
    /\ error_count[5] = 1000
    /\ k[5] > 1000
    /\ stream_poll_count[5] = CountSat
    /\ budget < 0

\* C3: within one scheduler cycle, emit_any_writes of every device has
\* completed before the first poll frame of the cycle is sent, and no
\* write frame follows a poll frame.
C3_WriteBeforePoll ==
    /\ (\E j \in DOMAIN sent : sent[j].kind = "poll") => flushed = DevIds
    /\ \A i \in DOMAIN sent : \A j \in DOMAIN sent :
          (sent[i].kind = "poll" /\ sent[j].kind = "write") => j < i

\* A cycle in which both devices emitted a write frame and one was polled.
C3_Witness ==
    /\ \E j \in DOMAIN sent : sent[j].kind = "poll"
    /\ \A d \in DevIds : \E j \in DOMAIN sent :
          sent[j].kind = "write" /\ sent[j].dev = d
    /\ Cardinality(DevIds) = 2

\* C5: every frame read during the dispatch window of a poll of device A
\* is handed to the device whose number is the frame's source address, also
\* when that device is not A or is in backoff: its valid payload data is
\* appended to that device's buffer and to no other; a frame of another
\* source than A, or of no device, does not end the window: _dispatch_until
\* returns on a frame of A only, and the frame's step leaves the scheduler's
\* position and all counters as they are.
C5_PromiscuousDispatch ==
    [][(sched.pc = "window" /\ last'.op = "receive") =>
        LET b == last'.src
            data == last'.data
            wellformed == /\ Len(data) >= 3
                          /\ data[1] = 65
                          /\ data[2] = 1
                          /\ data[3] <= 61
                          /\ 3 + data[3] <= Len(data)
        IN /\ \A d \in DevIds :
                read_data'[d] = IF d = b /\ wellformed
                                THEN read_data[d] \o SubSeq(data, 4, 3 + data[3])
                                ELSE read_data[d]
           /\ sched' = sched
           /\ error_count' = error_count
           /\ poll_count' = poll_count
           /\ ~dispatch.done
           /\ dispatch'.done = (b = devices[sched.i])
      ]_vars

\* In the window of device 7, a frame of device 5, which is in backoff,
\* has put data into the buffer of device 5, and the window is still open.
C5_Witness ==
    /\ last.op = "receive"
    /\ last.dev = 7
    /\ last.src = 5
    /\ last.ret
    /\ poll_count[5] > 0
    /\ read_data[5] = <<97>>
    /\ read_data[7] = <<>>
    /\ sched = [pc |-> "window", i |-> 2]
    /\ ~dispatch.done

\* The byte runs of s that a CR or LF ends, in order of their delimiters.
RECURSIVE Runs(_, _)
Runs(s, cur) ==
    IF s = <<>> THEN <<>>
    ELSE IF Head(s) \in {13, 10} THEN <<cur>> \o Runs(Tail(s), <<>>)
    ELSE Runs(Tail(s), Append(cur, Head(s)))

IsNonEmpty(r) == r # <<>>

\* r without its trailing spaces, tabs, vertical tabs and form feeds.
Trim(r) ==
    LET keep == {n \in 1..Len(r) : r[n] \notin {32, 9, 11, 12}}
    IN SubSeq(r, 1, IF keep = {} THEN 0
                    ELSE CHOOSE n \in keep : \A m \in keep : m <= n)

RunsOf(s) == SelectSeq(Runs(s, <<>>), IsNonEmpty)

TrimmedRunsOf(s) ==
    LET runs == Runs(s, <<>>)
    IN SelectSeq([i \in DOMAIN runs |-> Trim(runs[i])], IsNonEmpty)

\* C7 as stated: the lines readline returned, followed by those the
\* buffer still holds, are the non-empty byte runs between the CR/LF
\* delimiters of the accepted data, with only the delimiters removed.
C7_Original ==
    /\ lines[5] \o RunsOf(read_data[5]) = RunsOf(accepted[5])
    /\ \A i \in DOMAIN lines[5] : lines[5][i] # <<>>

\* C7, amended: the lines readline returned, followed by those the buffer
\* still holds, are the byte runs between the CR/LF delimiters of the
\* accepted data, in order, with the delimiters and the trailing
\* whitespace removed, without the runs that are empty after that; no
\* returned line is empty.
C7_ReadlineLines ==
    /\ lines[5] \o TrimmedRunsOf(read_data[5]) = TrimmedRunsOf(accepted[5])
    /\ \A i \in DOMAIN lines[5] : lines[5][i] # <<>>

\* After "\n" and "a \n" readline has returned the one line "a".
C7_Witness ==
    /\ accepted[5] = <<10, 97, 32, 10>>
    /\ lines[5] = << <<97>> >>
    /\ read_data[5] = <<>>

\* The shapes process_message rejects.
Malformed(data) ==
    \/ Len(data) < 3
    \/ data[1] # 65
    \/ data[2] # 1
    \/ data[3] > 61
    \/ data[3] > Len(data) - 3

\* C8: process_message of a malformed payload leaves the inbound buffer
\* unchanged, returns False and wakes no reader.
C8_MalformedDropped ==
    [][(last'.op = "receive" /\ Malformed(last'.data)) =>
        /\ read_data' = read_data
        /\ reader' = reader
        /\ last'.ret = FALSE
      ]_vars

\* A payload with declared length 62 and 62 bytes of data was dropped
\* while the reader waits on a non-empty buffer.
C8_Witness ==
    /\ last.op = "receive"
    /\ Len(last.data) = 65
    /\ last.data[3] = 62
    /\ reader[5].st = "wait"
    /\ read_data[5] = <<97>>

\* C9: process_message of a well-formed payload with declared length L
\* appends exactly its bytes 3..3+L to the tail of the inbound buffer,
\* wakes the waiting reader and returns True iff L > 0.
C9_WellFormedAccept ==
    [][(last'.op = "receive" /\ ~Malformed(last'.data)) =>
        LET d == last'.src
            L == last'.data[3]
        IN /\ read_data'[d] = read_data[d] \o [i \in 1..L |-> last'.data[3 + i]]
           /\ reader[d].st = "wait" => reader'[d].st = "woken"
           /\ last'.ret = (L > 0)
      ]_vars

\* "b" with a byte past its declared length was appended after "a", and
\* the waiting reader was woken.
C9_Witness ==
    /\ last.op = "receive"
    /\ last.data = <<65, 1, 1, 98, 10>>
    /\ last.ret
    /\ read_data[5] = <<97, 98>>
    /\ reader[5].st = "woken"

\* C6: no missed wake-up.  Each append to the inbound buffer wakes the
\* waiting reader in the same step, before any other task runs, and no
\* reader is left waiting while bytes appended after its last check of the
\* buffer are there, in every interleaving of the scheduler task (its
\* dispatch loop being cancelled by timeouts) and the session task.
C6_NoMissedWakeup ==
    /\ [](\A d \in DevIds : reader[d].st = "wait" => ~stale[d])
    /\ [][\A d \in DevIds :
            Len(read_data'[d]) > Len(read_data[d]) => reader'[d].st # "wait"
         ]_vars

\* After a poll timeout cancelled the dispatch loop, an append woke the
\* reader that waited in readline.
C6_Witness ==
    /\ budget < MaxTimeouts
    /\ last.op = "receive"
    /\ last.ret
    /\ stale[5]
    /\ reader[5] = [op |-> "readline", st |-> "woken", oldlen |-> 0]

\* C10: when the buffer starts with a byte, a little-endian 32-bit length
\* N <= 2^24 and N further bytes, read_sized_block returns those N bytes
\* and leaves the bytes after them, in order; with fewer than 5 + N bytes
\* it waits and consumes nothing.
C10_ReadSizedBlock ==
    [][last'.op = "read_sized_block" =>
        LET d == last'.dev
            buf == read_data[d]
            N == buf[2] + 256 * buf[3] + 65536 * buf[4] + 16777216 * buf[5]
        IN IF Len(buf) >= 5 /\ N <= 16777216 /\ Len(buf) >= 5 + N
           THEN /\ reader'[d].st = "idle"
                /\ result'[d].kind = "block"
                /\ Len(result'[d].value) = N
                /\ \A i \in 1..N : result'[d].value[i] = buf[5 + i]
                /\ Len(read_data'[d]) = Len(buf) - (5 + N)
                /\ \A i \in 1..(Len(buf) - (5 + N)) :
                      read_data'[d][i] = buf[5 + N + i]
           ELSE IF Len(buf) < 5 \/ N <= 16777216
                THEN /\ reader'[d].st = "wait"
                     /\ read_data' = read_data
                     /\ result' = result
                ELSE TRUE
      ]_vars

\* read_sized_block, which waited for the end of the header, returned
\* "ab" of 'X' 2 0 0 0 "ab" "c" and left "c".
C10_Witness ==
    /\ last.op = "read_sized_block"
    /\ accepted[5] = <<88, 2, 0, 0, 0, 97, 98, 99>>
    /\ result[5] = [kind |-> "block", value |-> <<97, 98>>]
    /\ read_data[5] = <<99>>
    /\ reader[5].st = "idle"

\* C11: when bytes[1:5] of the buffer declare a length above 2^24,
\* read_sized_block returns False in that same step, without waiting, and
\* the buffer is left as it was; a declared length of exactly 2^24 is not
\* rejected: the call waits for the block.
C11_OversizeBlock ==
    [][last'.op = "read_sized_block" /\ Len(read_data[last'.dev]) >= 5 =>
        LET d == last'.dev
            buf == read_data[d]
            N == buf[2] + 256 * buf[3] + 65536 * buf[4] + 16777216 * buf[5]
        IN /\ N > 16777216 =>
                /\ reader'[d].st = "idle"
                /\ result'[d] = [kind |-> "False", value |-> <<>>]
                /\ read_data'[d] = buf
           /\ N = 16777216 /\ Len(buf) < 5 + N =>
                /\ reader'[d].st = "wait"
                /\ result'[d] = result[d]
                /\ read_data'[d] = buf
      ]_vars

\* read_sized_block failed on the header of a block of 2^24 + 1 bytes,
\* and the header is still buffered.
C11_Witness ==
    /\ last.op = "read_sized_block"
    /\ accepted[5] = <<88, 1, 0, 0, 1>>
    /\ result[5] = [kind |-> "False", value |-> <<>>]
    /\ read_data[5] = <<88, 1, 0, 0, 1>>
    /\ reader[5].st = "idle"

\* C12: resynchronize returns only from a wake-up at which the buffer is
\* as long as at the call or at the wake-up before, and then the buffer
\* is empty; a wake-up that finds the buffer grown leaves the call
\* suspended and the buffer as it is, and so does the call itself.
C12_Resynchronize ==
    [][last'.op = "resynchronize" =>
        LET d == last'.dev
        IN IF reader[d].st = "woken" /\ Len(read_data[d]) = reader[d].oldlen
           THEN /\ reader'[d].st = "idle"
                /\ read_data'[d] = <<>>
           ELSE /\ reader'[d].st = "wait"
                /\ reader'[d].oldlen = Len(read_data[d])
                /\ read_data'[d] = read_data[d]
      ]_vars

\* resynchronize returned, at a wake-up that brought no byte after a poll
\* timeout: the buffer is empty.
C12_Witness ==
    /\ last.op = "resynchronize"
    /\ reader[5].st = "idle"
    /\ result[5].kind = "None"
    /\ read_data[5] = <<>>
    /\ budget < MaxTimeouts

\* The lines of a command's answer that the claim C13 takes into the
\* result, each followed by "\n": those without the prefix "emit " or
\* "schema ".
RECURSIVE ResponseText(_)
ResponseText(ls) ==
    IF ls = <<>> THEN <<>>
    ELSE IF StartsWith(Head(ls), EmitPrefix) \/ StartsWith(Head(ls), SchemaPrefix)
         THEN ResponseText(Tail(ls))
         ELSE Head(ls) \o <<10>> \o ResponseText(Tail(ls))

\* C13: when command returns, what it returns is the lines read since it
\* was called and before the "OK" line, newline-joined, in order, without
\* the lines prefixed "emit " or "schema ", wherever they stand.
C13_CommandResult ==
    \A d \in DevIds :
        LET e == session[d].event
        IN e.kind = "returned" =>
             /\ StartsWith(e.seen[Len(e.seen)], OK)
             /\ e.text = ResponseText(SubSeq(e.seen, 1, Len(e.seen) - 1))

\* C14: when command reads a line that starts with "ERR", it raises
\* CommandError with its argument and that line in that same step, it
\* returns nothing, and of the buffer it has taken that line with its
\* terminator and no byte after it.
C14_CommandFailure ==
    [][\A d \in DevIds :
        ( /\ session[d].pc \in {"command_first", "command_next"}
          /\ last'.op = "readline" /\ last'.dev = d
          /\ reader'[d].st = "idle"
          /\ StartsWith(result'[d].value, ERR) )
        => LET line == result'[d].value
               n == Len(read_data[d]) - Len(read_data'[d])
               taken == SubSeq(read_data[d], 1, n)
           IN /\ session'[d].event.kind = "CommandError"
              /\ session'[d].event.cmd = session[d].message
              /\ session'[d].event.text = line
              /\ read_data'[d] = SubSeq(read_data[d], n + 1, Len(read_data[d]))
              /\ RStrip(taken) = line
              /\ taken[n] \in {10, 13}
              /\ \A i \in 1..(n - 1) : taken[i] \notin {10, 13}
      ]_vars

\* command('conf list') raised on "ERR" after the line "a", and the "OK"
\* that came with the "ERR" is still in the buffer.
C14_Witness ==
    /\ session[5].event =
         Event("CommandError", ConfList, ERR, << <<97>>, ERR >>)
    /\ read_data[5] = OK \o <<10>>
    /\ session[5].message = ConfEnumerate

\* The successors of the states of a session.
StateOrder ==
    {<<"AwaitingStable", "SyncingConfig">>,
     <<"SyncingConfig", "SyncingTelemetry">>,
     <<"SyncingTelemetry", "Running">>}

\* C15: a session is in AwaitingStable until it has passed the gate of
\* start, and it changes its state only to the next one of the order
\* AwaitingStable, SyncingConfig, SyncingTelemetry, Running.
C15_StateOrder ==
    /\ [](\A d \in DevIds :
            session[d].pc \in {"start", "gate"}
                => session[d].state = "AwaitingStable")
    /\ [][\A d \in DevIds :
            \/ session'[d].state = session[d].state
            \/ <<session[d].state, session'[d].state>> \in StateOrder
         ]_vars

\* A session that went through the schema-based enumeration of "a" and the
\* telemetry schema of "a" is in Running, at run's first readline.
C15_Witness ==
    /\ session[5] = RunningSession
    /\ read_data[5] = <<>>
    /\ reader[5] = Idle
    /\ write_data[5] = <<>>

\* s ends t.
IsSuffix(s, t) == Len(s) <= Len(t) /\ s = SubSeq(t, Len(t) - Len(s) + 1, Len(t))

\* C16: start queues "tel stop" first; as long as the session is in
\* AwaitingStable nothing else has been queued; and the step that leaves
\* AwaitingStable finds at least 5 polls and 1 flush counted, empties the
\* inbound buffer and queues the first sync command.
C16_Gate ==
    /\ [](\A d \in DevIds :
            session[d].state = "AwaitingStable" =>
                IF session[d].pc = "start" THEN write_data[d] = <<>>
                ELSE IsSuffix(write_data[d], TelStop))
    /\ [][\A d \in DevIds :
            /\ session[d].pc = "start" /\ session'[d].pc # "start"
                 => write_data'[d] = TelStop
            /\ session[d].state = "AwaitingStable"
                 /\ session'[d].state # "AwaitingStable"
                 => /\ stream_poll_count[d] >= 5
                    /\ emit_count[d] >= 1
                    /\ read_data'[d] = <<>>
                    /\ write_data'[d] = write_data[d] \o ConfList \o CRLF
         ]_vars

\* The session left AwaitingStable after five polls and one flush, and a
\* frame that had come before is gone from the buffer.
C16_Witness ==
    /\ last.op = "ignore_all"
    /\ session[5].state = "SyncingConfig"
    /\ stream_poll_count[5] >= 5
    /\ emit_count[5] = 1
    /\ read_data[5] = <<>>
    /\ stale[5] = FALSE
    /\ write_data[5] = ConfList \o CRLF

\* C17: no command error ends a session in SyncingConfig: update_config
\* completes whatever the device answers to the legacy command.
C17_ConfigLeadsToTelemetry ==
    \A d \in DevIds :
        ~ ( /\ session[d].state = "SyncingConfig"
            /\ session[d].pc = "raised"
            /\ session[d].event.kind = "CommandError" )

\* C18: in schema_update_config, a line that starts with "ERR", read while
\* the session waits for an item's schema header or for its data header,
\* raises a command error in that step and the legacy enumeration starts.
C18_ErrDuringItem ==
    [][\A d \in DevIds :
        ( /\ session[d].state = "SyncingConfig"
          /\ session[d].pc \in {"read_schema_line", "read_data_line"}
          /\ last'.op = "readline" /\ last'.dev = d
          /\ reader'[d].st = "idle"
          /\ StartsWith(result'[d].value, ERR) )
        => /\ session'[d].event.kind = "CommandError"
           /\ session'[d].pc = "command_first"
           /\ session'[d].message = ConfEnumerate
      ]_vars

\* C19: a session in Running stays in Running and no error escapes run; a
\* decoder's failure on an emit's block is caught and the session is at
\* run's readline again.
C19_RunningAbsorbs ==
    [][\A d \in DevIds :
        session[d].state = "Running" =>
            /\ session'[d].state = "Running"
            /\ session'[d].pc \in {"run_line", "run_resync", "do_data_block"}
            /\ session[d].pc = "do_data_block" /\ session'[d].pc # "do_data_block"
                 => /\ session'[d].pc = "run_line"
                    /\ session'[d].event.kind \in
                         {"no data", "no record", "updated", "caught"}
      ]_vars

\* The decoder failed on the block of "emit a", run caught it, and the
\* next line waits in the buffer.
C19_Witness ==
    /\ session[5].state = "Running"
    /\ session[5].pc = "run_line"
    /\ session[5].event = Event("caught", <<97>>, <<>>, <<>>)
    /\ updates.arrived = <<>>
    /\ read_data[5] = <<97, 10>>

\* C20: no sized block is read for a line of Running that has a byte
\* over 127: the session is at do_data's read_sized_block only for a line
\* without one.
C20_DesyncRecovery ==
    \A d \in DevIds :
        session[d].pc = "do_data_block" => ~HasNonAscii(session[d].line)

\* C21: after its k-th timeout in a row a device is skipped, its
\* poll_count going down by one, in each of the min(1000, k) cycles that
\* follow, and polled in the cycle after them: outside its own poll window
\* the cycles that skipped it and those still to skip it add up to
\* min(1000, k), a cycle skips it only while some are left, and it is polled
\* when none is.
C21_BackoffDuration ==
    /\ [](\A d \in DevIds :
            \/ sched.pc = "window" /\ devices[sched.i] = d
            \/ skips[d] + poll_count[d] = Min2(ERROR_CAP, k[d]))
    /\ [][\A d \in DevIds :
            /\ last'.op = "skip" /\ last'.dev = d
                 => /\ skips[d] < Min2(ERROR_CAP, k[d])
                    /\ skips'[d] = skips[d] + 1
                    /\ poll_count'[d] = poll_count[d] - 1
            /\ last'.op = "poll" /\ last'.dev = d
                 => /\ skips[d] = Min2(ERROR_CAP, k[d])
                    /\ poll_count[d] = 0
         ]_vars

\* The device is polled after its 1001st timeout in a row and the 1000
\* cycles that skipped it.
C21_Witness ==
    /\ last.op = "poll" /\ last.dev = 5
    /\ k[5] = ERROR_CAP + 1
    /\ error_count[5] = ERROR_CAP
    /\ poll_count[5] = 0

\* C22: a poll timeout of a device leaves error_count and poll_count of
\* every other device as they were and the poll loop goes on with the next
\* device; and a device whose poll_count is 0 at its turn is polled.
C22_BackoffIsolation ==
    [][/\ last'.op = "timeout"
          => /\ \A b \in DevIds \ {last'.dev} :
                   /\ error_count'[b] = error_count[b]
                   /\ poll_count'[b] = poll_count[b]
             /\ devices[sched.i] = last'.dev
             /\ sched.i < Len(devices)
                  => sched' = [pc |-> "poll", i |-> sched.i + 1]
       /\ sched.pc = "poll" /\ poll_count[devices[sched.i]] = 0
          => /\ last'.op = "poll"
             /\ last'.dev = devices[sched.i]
             /\ sched' = [pc |-> "window", i |-> sched.i]
      ]_vars

\* Device 7 is polled in the cycle in which the poll of device 5 has timed
\* out for the first time.
C22_Witness ==
    /\ last.op = "poll" /\ last.dev = 7
    /\ k[5] = 1 /\ error_count[5] = 1 /\ poll_count[5] = 1
    /\ error_count[7] = 0 /\ poll_count[7] = 0

C24_IdleSleep ==
    [][sched.pc = "top" /\ sched'.pc = "flush"
          => (last'.op = "sleep" <=> ~cycle_data)
      ]_vars

\* The data field of a valid payload, and nothing for any other payload.
PayloadData(data) ==
    IF /\ Len(data) >= 3
       /\ data[1] = 65 /\ data[2] = 1
       /\ data[3] <= 61 /\ data[3] <= Len(data) - 3
    THEN SubSeq(data, 4, 3 + data[3])
    ELSE <<>>

\* C25: the inbound buffer of a device is the end of the data fields of
\* the valid payloads of that device since the last discard, in the order
\* of the frames, the bytes before it being those consumed; a frame of the
\* device appends its data field if it is valid and nothing otherwise, a
\* discard empties the buffer, and every other step leaves the buffer or
\* takes bytes off its front.
C25_InboundFifo ==
    /\ [](\A d \in DevIds : IsSuffix(read_data[d], accepted[d]))
    /\ [][\A d \in DevIds :
            IF last'.op = "receive" /\ last'.src = d
            THEN /\ read_data'[d] = read_data[d] \o PayloadData(last'.data)
                 /\ accepted'[d] = accepted[d] \o PayloadData(last'.data)
            ELSE IF last'.op = "resynchronize" /\ last'.dev = d
                    /\ reader'[d].st = "idle"
            THEN read_data'[d] = <<>> /\ accepted'[d] = <<>>
            ELSE /\ accepted'[d] = accepted[d]
                 /\ IsSuffix(read_data'[d], read_data[d])
         ]_vars

\* The frames "\n" and "a" came in that order, readline has consumed the
\* empty line and waits, and "a" is what the buffer holds.
C25_Witness ==
    /\ accepted[5] = <<10, 97>>
    /\ read_data[5] = <<97>>
    /\ reader[5] = Waiting("readline", 0)

\* The write frames of device d among the frames s.
WriteFrames(d, s) ==
    LET OfD(f) == f.kind = "write" /\ f.dev = d
    IN SelectSeq(s, OfD)

\* C26: every write frame carries 1 to 61 bytes; write(data) puts data at
\* the end of the device's outbound queue; emit_any_writes with a queue
\* that is not empty sends one write frame, whose bytes followed by the
\* queue it leaves are the queue it found; and no other step changes the
\* queue or sends a write frame of the device.  So the bytes of the write
\* frames so far followed by the queue are the bytes written so far, in
\* order.
C26_OutboundQueue ==
    /\ [](\A j \in DOMAIN sent :
            sent[j].kind = "write"
                => Len(sent[j].bytes) >= 1 /\ Len(sent[j].bytes) <= 61)
    /\ [][\A d \in DevIds :
            IF last'.op = "write" /\ last'.dev = d
            THEN /\ write_data'[d] = write_data[d] \o last'.data
                 /\ WriteFrames(d, sent') = WriteFrames(d, sent)
            ELSE IF last'.op = "flush" /\ last'.dev = d /\ write_data[d] # <<>>
            THEN \E n \in 1..61 :
                    /\ n <= Len(write_data[d])
                    /\ WriteFrames(d, sent') =
                         Append(WriteFrames(d, sent),
                                [kind |-> "write", dev |-> d,
                                 bytes |-> SubSeq(write_data[d], 1, n)])
                    /\ write_data'[d] =
                         SubSeq(write_data[d], n + 1, Len(write_data[d]))
            ELSE /\ write_data'[d] = write_data[d]
                 /\ sent' = <<>> \/ WriteFrames(d, sent') = WriteFrames(d, sent)
         ]_vars

\* A task writes "b\n" to device 5 after a frame of 61 bytes has left a
\* queue of 64 and before the three bytes that stayed are sent.
C26_Witness ==
    /\ last.op = "write" /\ last.dev = 5
    /\ write_data[5] = <<97, 97, 97, 98, 10>>
    /\ \E j \in DOMAIN sent :
          /\ sent[j] = [kind |-> "write", dev |-> 5,
                        bytes |-> <<98, 10>> \o SubSeq(Long, 1, 59)]

\* The samples a Record retains after the updates so far: the last
\* MAX_HISTORY_SIZE of them, or all when there are fewer.
Retained ==
    LET n == Len(updates.arrived)
        m == Min2(n, MAX_HISTORY_SIZE)
    IN SubSeq(updates.arrived, n - m + 1, n)

\* C27: after n updates the history of a Record holds exactly the last
\* min(n, 100) samples in their order of arrival; an update that finds
\* fewer than 100 samples evicts none, and one that finds 100 evicts
\* exactly the oldest.
C27_HistoryBound ==
    /\ [](record.history = Retained /\ Len(record.history) <= MAX_HISTORY_SIZE)
    /\ [][last'.op = "update" =>
            LET struct == updates'.arrived[Len(updates'.arrived)]
            IN IF Len(record.history) < MAX_HISTORY_SIZE
               THEN record'.history = Append(record.history, struct)
               ELSE record'.history = Append(Tail(record.history), struct)]_vars

\* The hundred-and-first sample has arrived and the first one is gone.
C27_Witness ==
    /\ last.op = "update"
    /\ Len(updates.arrived) = MAX_HISTORY_SIZE + 1
    /\ Len(record.history) = MAX_HISTORY_SIZE
    /\ record.history[1] = Sample(2)
    /\ updates.arrived[1] = Sample(1)

\* The entries of the last update's calls for the handler i of the signal
\* of a key.
CallsOf(name, i) ==
    {c \in DOMAIN updates.calls :
        updates.calls[c].name = name /\ updates.calls[c].handler = i}

\* C28: Record.update returns true exactly when some signal has an
\* attached subscriber; it invokes every attached subscriber exactly once
\* and no removed one.
C28_UpdateReturn ==
    last.op = "update" =>
        /\ updates.ret =
               (\E j \in DOMAIN record.signals :
                   record.signals[j].signal.callbacks # <<>>)
        /\ \A j \in DOMAIN record.signals :
               \A i \in 0..(record.signals[j].signal.index - 1) :
                   Cardinality(CallsOf(record.signals[j].name, i)) =
                       IF i \in Range(record.signals[j].signal.callbacks)
                       THEN 1 ELSE 0
        /\ \A c \in DOMAIN updates.calls :
               \E j \in DOMAIN record.signals :
                   /\ record.signals[j].name = updates.calls[c].name
                   /\ updates.calls[c].handler \in
                          Range(record.signals[j].signal.callbacks)

\* An update of a Record whose one signal had two subscribers, the first
\* of them removed: the second one alone is called.
C28_Witness ==
    /\ last.op = "update"
    /\ updates.ret
    /\ Len(record.signals) = 1
    /\ record.signals[1].signal = [index |-> 2, callbacks |-> <<1>>]
    /\ Len(updates.calls) = 1
    /\ updates.calls[1].handler = 1

\* C29: a subscriber of the signal __MEAN_x receives the mean of x over
\* the samples retained after the new one is appended and the oldest one,
\* if any, evicted: 2 after the samples 1, 2, 3.
C29_MeanValue ==
    last.op = "update" =>
        \A c \in DOMAIN updates.calls :
            updates.calls[c].name = MeanPrefix \o FieldX =>
                /\ updates.calls[c].value.den = Len(Retained)
                /\ updates.calls[c].value.num =
                       SumSeq([i \in DOMAIN Retained |-> Retained[i][FieldX]])
                /\ updates.arrived = <<Sample(1), Sample(2), Sample(3)>> =>
                       updates.calls[c].value.num = 2 * updates.calls[c].value.den

\* The subscriber of __MEAN_x is called by the update that evicts the
\* sample 1: the mean is over the hundred samples 2, ..., 98 and three
\* more.
C29_Witness ==
    /\ last.op = "update"
    /\ Len(updates.arrived) = MAX_HISTORY_SIZE + 1
    /\ \E c \in DOMAIN updates.calls :
           /\ updates.calls[c].name = MeanPrefix \o FieldX
           /\ updates.calls[c].value.den = MAX_HISTORY_SIZE
           /\ updates.calls[c].value.num =
                  SumSeq([i \in 1..(MAX_HISTORY_SIZE - 2) |-> i]) - 1
                  + SumSeq([i \in 1..3 |-> updates.arrived[MAX_HISTORY_SIZE - 2 + i][FieldX]])

\* The buffer holds a segment that ends with CR or LF and is not empty
\* after trimming.
RECURSIVE HoldsLine(_)
HoldsLine(buf) ==
    LET m == ReadMaybeEmptyLine(buf)
    IN m.found /\ (RStrip(m.to_return) # <<>> \/ HoldsLine(m.read_data))

\* C30: readline does not wait needlessly: no readline is waiting for a
\* notification while the inbound buffer holds a terminated segment that
\* is not empty after trimming, and a readline that finds such a segment
\* in the buffer returns, also when empty segments precede it.
C30_NoNeedlessWait ==
    /\ [](\A d \in Range(devices) :
             reader[d] = Waiting("readline", 0) => ~HoldsLine(read_data[d]))
    /\ [][\A d \in Range(devices) :
             last'.op = "readline" /\ last'.dev = d /\ HoldsLine(read_data[d])
                 => reader'[d] = Idle /\ result'[d].kind = "line"]_vars

\* C31: in every reachable state and for every device,
\* 0 <= poll_count <= error_count <= 1000.
C31_CounterBounds ==
    \A d \in Range(devices) :
        /\ 0 <= poll_count[d]
        /\ poll_count[d] <= error_count[d]
        /\ error_count[d] <= 1000

\* A device at the cap of error_count, one cycle into its backoff.
C31_Witness ==
    /\ last.op = "skip"
    /\ last.dev = 5
    /\ error_count[5] = 1000
    /\ poll_count[5] = 999

\* C32: a frame that carries the polled device's address ends the dispatch
\* window and sets that device's error_count and poll_count to 0 also when
\* process_message drops its payload as malformed: the inbound buffers stay
\* as they are, _dispatch_until returns False on it, and the scheduler's
\* next step leaves the window with both counters 0 and reports no data
\* for the cycle.
C32_AddressOnly ==
    [][/\ last'.op = "receive" /\ last'.src = last'.dev /\ Malformed(last'.data) =>
           /\ sched.pc = "window"
           /\ devices[sched.i] = last'.dev
           /\ dispatch' = [done |-> TRUE, ret |-> FALSE]
           /\ read_data' = read_data
           /\ ~last'.ret
           /\ cycle_data' = cycle_data
       /\ dispatch.done =>
           /\ last'.op = "answered"
           /\ last'.dev = devices[sched.i]
           /\ sched' = AfterPoll(sched.i)
           /\ error_count'[last'.dev] = 0
           /\ poll_count'[last'.dev] = 0
           /\ read_data' = read_data
           /\ any_data_read' = (any_data_read \/ dispatch.ret)
           /\ cycle_data' = cycle_data]_vars

\* The poll of device 5 after a timed-out one is answered by a frame of
\* device 5 with a wrong marker.
C32_Witness ==
    /\ last.op = "answered"
    /\ last.src = 5
    /\ last.dev = 5
    /\ last.data = <<64, 1, 1, 97>>
    /\ ~last.ret
    /\ last.ec = 1
    /\ error_count[5] = 0
    /\ poll_count[5] = 0
    /\ read_data[5] = <<>>

\* C33: a frame of device b read in the dispatch window of another device
\* has its valid payload appended to b's inbound buffer and changes
\* neither error_count nor poll_count of b, also when it is the late answer
\* to b's own timed-out poll; the counters of b change only at the end of
\* b's own poll (answer or timeout) and when a cycle skips b.
C33_CrossTalk ==
    [][\A b \in Range(devices) :
           /\ last'.op = "receive" /\ last'.src = b /\ last'.dev # b =>
                  /\ error_count'[b] = error_count[b]
                  /\ poll_count'[b] = poll_count[b]
                  /\ read_data'[b] = read_data[b] \o PayloadData(last'.data)
           /\ error_count'[b] # error_count[b] \/ poll_count'[b] # poll_count[b] =>
                  /\ last'.dev = b
                  /\ \/ last'.op = "answered"
                     \/ last'.op = "timeout"
                     \/ last'.op = "skip" /\ error_count'[b] = error_count[b]
                                          /\ poll_count'[b] = poll_count[b] - 1]_vars

\* The poll of device 5 timed out; its answer with the byte 'a' arrives in
\* the window of device 7 in the same cycle.
C33_Witness ==
    /\ last.op = "receive"
    /\ last.src = 5
    /\ last.dev = 7
    /\ last.data = <<65, 1, 1, 97>>
    /\ read_data[5] = <<97>>
    /\ error_count[5] = 1
    /\ poll_count[5] = 1
    /\ skips[5] = 0

\* C34: in each cycle emit_any_writes of a device with a queue that is not
\* empty sends exactly one write frame with the first min(61, length)
\* bytes of the queue and leaves the bytes after them queued, in their
\* order, whether or not the device is in backoff; with an empty queue it
\* sends nothing and leaves emit_count as it is; once the flush loop is
\* over every device was flushed, and no device has two write frames in a
\* cycle.
C34_OneChunkPerCycle ==
    /\ [](\A d \in Range(devices) :
             /\ Len(WriteFrames(d, sent)) <= 1
             /\ sched.pc \in {"poll", "window"} => d \in flushed)
    /\ [][\A d \in Range(devices) :
             last'.op = "flush" /\ last'.dev = d =>
                 LET n == Min2(61, Len(write_data[d]))
                 IN IF n > 0
                    THEN /\ sent' = Append(sent, [kind |-> "write", dev |-> d,
                                                  bytes |-> SubSeq(write_data[d], 1, n)])
                         /\ WriteFrames(d, sent) = <<>>
                         /\ write_data'[d] =
                                SubSeq(write_data[d], n + 1, Len(write_data[d]))
                         /\ emit_count'[d] = Sat(emit_count[d])
                    ELSE /\ sent' = sent
                         /\ write_data'[d] = <<>>
                         /\ emit_count'[d] = emit_count[d]]_vars

\* Device 5 is in backoff and has 63 bytes queued: its flush sends 61 of
\* them and two stay.
C34_Witness ==
    /\ last.op = "flush" /\ last.dev = 5
    /\ poll_count[5] > 0
    /\ \E j \in DOMAIN sent :
           /\ sent[j].kind = "write" /\ sent[j].dev = 5
           /\ Len(sent[j].bytes) = 61
    /\ Len(write_data[5]) = 2

\* C35: while scheduler cycles keep running, every session leaves
\* AwaitingStable and enters SyncingConfig, also when no poll of its device
\* is answered.
C35_GateEnds ==
    /\ \A d \in {5} : <>(session[d].state = "SyncingConfig")
    /\ [][\A d \in {5} :
             session'[d].state # session[d].state /\ session[d].state = "AwaitingStable"
                 => session'[d].state = "SyncingConfig"]_vars

\* The session passes the gate after five polls of its device, none of
\* them answered.
C35_Witness ==
    /\ last.op = "ignore_all"
    /\ session[5].state = "SyncingConfig"
    /\ k[5] = 5
    /\ error_count[5] = 5
    /\ stream_poll_count[5] = 5

\* update_config of the session is in progress: it has started and has
\* neither returned nor raised.
InUpdateConfig(s) == s.state = "SyncingConfig" /\ s.pc # "raised"

\* C36: config_item_changed queues nothing while update_config is in
\* progress; the flag is set exactly while it is, being cleared when
\* update_config returns through the schema path or the legacy path and
\* when an error leaves it, and an edit made then queues
\* conf set <path> <value>: conf set x 1 for the value 1 and for the
\* boolean true, conf set x 3 for the enum text '<M: 3>'.
C36_EditsSuppressed ==
    /\ [](\A d \in Range(devices) :
             session[d].updating_config = InUpdateConfig(session[d]))
    /\ [][\A d \in Range(devices) :
             last'.op = "config_item_changed" /\ last'.dev = d =>
                 IF InUpdateConfig(session[d])
                 THEN write_data' = write_data
                 ELSE \E v \in {49, 51} :
                          write_data'[d] =
                              write_data[d] \o <<99, 111, 110, 102, 32, 115, 101,
                                                 116, 32, 120, 32, v, 13, 10>>]_vars

\* An edit while the session waits for the answer to conf enumerate, the
\* schema path having failed: nothing is queued.
C36_Witness ==
    /\ last.op = "config_item_changed"
    /\ last.data = <<>>
    /\ session[5].message = ConfEnumerate
    /\ session[5].pc = "command_first"
    /\ session[5].updating_config
    /\ write_data[5] = <<>>

\* C37: in Running, do_data for an emit line whose name has no Record
\* takes exactly the sized block that follows the line off the inbound
\* buffer, the five bytes of its header and the bytes it declares, and
\* leaves the Record, its history and its signals unchanged; the session
\* is at run's readline again, with the bytes after the block next in the
\* buffer.  (A Record is updated only for the name of a channel that has
\* one.)
C37_UnknownChannel ==
    [][\A d \in Range(devices) :
           /\ session[d].state = "Running" /\ session[d].pc = "do_data_block"
              /\ session[d].name \notin session[d].records
              /\ last'.op = "read_sized_block" /\ result'[d].kind = "block"
              /\ reader'[d] = Idle =>
                  LET size == UnpackU32(SubSeq(read_data[d], 2, 5))
                  IN /\ Len(read_data[d]) >= 5 + size
                     /\ result'[d].value = SubSeq(read_data[d], 6, 5 + size)
                     /\ read_data'[d] =
                            SubSeq(read_data[d], 6 + size, Len(read_data[d]))
                     /\ record' = record
                     /\ updates' = updates
                     /\ session'[d].pc = "run_line"
                     /\ session'[d].state = "Running"
           /\ record' # record /\ session[d].state = "Running" =>
                  session[d].name \in session[d].records]_vars

\* The block of one byte after "emit b" is consumed, the channel b having
\* no Record, and the line "a" that follows the block is next in the
\* buffer; the Record of channel a was updated once before.
C37_Witness ==
    /\ last.op = "read_sized_block"
    /\ session[5].pc = "run_line"
    /\ session[5].event = Event("no record", <<98>>, <<>>, <<>>)
    /\ result[5] = [kind |-> "block", value |-> <<7>>]
    /\ read_data[5] = <<97, 10>>
    /\ Len(record.history) = 1

====
